---- MODULE Spec2Model ----
(***************************************************************************)
(* A model of the terminal backend: the Screen operations that the         *)
(* sequencer dispatches (cursor, margins, modes, scrolling, text entry),   *)
(* the render double buffer shared by the terminal thread and the          *)
(* renderer, and the session's PTY input loop.                             *)
(*                                                                         *)
(* Offsets (line_offset, column_offset) are 0-based as in the source; the  *)
(* page lines are kept in a sequence, so line offset n is lines[n + 1].    *)
(***************************************************************************)
EXTENDS Integers, Sequences, FiniteSets, TLC

VARIABLES
    \* ---- Screen / Terminal state
    pageSize,             \* _settings.pageSize: [lines, columns]
    reflowOnResize,       \* Grid's reflow flag (decides defaultLineFlags)
    maxHistoryLineCount,  \* Grid's history limit
    usingStdoutFastPipe,  \* _state.usingStdoutFastPipe
    cursor,               \* Screen::_cursor
    savedCursor,          \* Screen::_savedCursor
    margin,               \* Grid's margin: [vert: [from, to], hori: [from, to]]
    modes,                \* Modes::_dec, restricted to DECModes
    savedModes,           \* Modes::_savedModes
    lines,                \* the page's lines, top to bottom
    history,              \* the scrollback lines, oldest first
    tabs,                 \* _state.tabs: the explicit tab stops
    status,               \* "running", "aborted" (Require failed), "fault" (access off the page)
    \* ---- observers of the screen's run
    last,                 \* the operation executed last and what it saw before
    sinceSave,            \* operations executed since the last DECSC (-1: none yet)
    monitor,              \* progress of save(m); set(m); reset(m); restore(m)
    input,                \* the input consumed so far (the scenario specifications)
    steps,                \* the number of operations the run may still execute
    \* ---- RenderDoubleBuffer, its producer and the renderer
    passiveUpdate,        \* LIBTERMINAL_PASSIVE_RENDER_BUFFER_UPDATE: the terminal thread refreshes
    currentBackBufferIndex,
    rbState,              \* RenderDoubleBuffer::state
    readerLock,           \* "free", or the thread holding the mutex
    buffers,              \* buffers[i + 1]: << cursor, cells >> of buffer i, each the frame it shows
    producerPc,           \* position of the thread refreshing the render buffer
    rendererPc,           \* position of Renderer::render
    rendererRef,          \* the buffer the renderer's RenderBufferRef refers to
    rendererSeen,         \* what the renderer has read through its reference
    frames,               \* frames built so far
    parserPc,             \* position of the IO thread around the terminal mutex: "idle", "waiting", "parsing"
    \* ---- TerminalSession main loop and the PTY
    ptyKind,              \* "UnixPty" or "ConPty"
    terminating,          \* TerminalSession::terminating_
    loopPc,               \* position of TerminalSession::mainLoop
    wakeupPending,        \* the wakeup pipe of the read selector: "none", "pending", "consumed"
    dataPending,          \* output of the child not read yet: [chunks, eof]
    chunksRead,           \* chunks the loop has processed
    closerPc,             \* position of TerminalSession::~TerminalSession
    ptyIo,                \* descriptors of UnixPty and the outcome of its last read and write
    \* ---- Sequencer
    sequencer,            \* the sequence being built: [input, rest, values, sub, rendition, before, dispatched]
    \* ---- HyperlinkStorage
    hyperlinks,           \* _state.hyperlinks: [nextHyperlinkId, cache]
    \* ---- TerminalSession: guarded buffer capture
    session,              \* [display, pendingBufferCapture, rememberedPermissions, requested, asked, sent]
    \* ---- ViInputHandler
    vi                    \* [viMode, searchEditMode, searchTerm, startedIn]

screenVars == << pageSize, reflowOnResize, maxHistoryLineCount, usingStdoutFastPipe,
                 cursor, savedCursor, margin, modes, savedModes, lines, history, tabs, status >>
observerVars == << last, sinceSave, monitor, input, steps >>
renderVars == << passiveUpdate, currentBackBufferIndex, rbState, readerLock, buffers, producerPc,
                 rendererPc, rendererRef, rendererSeen, frames, parserPc >>
ptyVars == << ptyKind, terminating, loopPc, wakeupPending, dataPending, chunksRead, closerPc >>
ioVars == << ptyIo >>
seqVars == << sequencer >>
appVars == << hyperlinks, session, vi >>
vars == << screenVars, observerVars, renderVars, ptyVars, ioVars, seqVars, appVars >>

----------------------------------------------------------------------------
(* Bounds of the model *)

MaxSteps == 4          \* operations per run of the cursor specification
MaxTextSteps == 2      \* operations per run of the text specification
MaxScrollSteps == 2    \* operations per run of the scroll specification
MaxModeSteps == 4      \* operations per run of the mode specification
MaxSavedModes == 1     \* entries a mode's save stack holds initially in the mode specification
MaxSaveSteps == 3      \* DECSC, one operation, DECRC
MaxParam == 3          \* numeric sequence parameters range over 0..MaxParam
MaxHistoryBound == 2   \* history limits range over 0..MaxHistoryBound
MaxFrames == 3         \* frames the producer builds in the render specification
MaxChunks == 2         \* chunks of output the child produces in the PTY specification

----------------------------------------------------------------------------
(* Helpers *)

Min(a, b) == IF a < b THEN a ELSE b
Max(a, b) == IF a > b THEN a ELSE b
Clamp(v, lo, hi) == IF v < lo THEN lo ELSE IF hi < v THEN hi ELSE v

\* seq.param_or(i, d): an omitted parameter reads as 0, and 0 selects the default.
ParamOr(p, d) == IF p = 0 THEN d ELSE p
Params == 0 .. MaxParam

\* The DEC modes the model tracks (toDECMode: 6, 7, 69, 2004).
DECModes == {"Origin", "AutoWrap", "LeftRightMargin", "BracketedPaste"}

DefaultSGR == [fg |-> 0, prot |-> FALSE]
DefaultCursor ==
    [line |-> 0, column |-> 0, autoWrap |-> TRUE, originMode |-> FALSE,
     wrapPending |-> FALSE, sgr |-> DefaultSGR, charset |-> "USASCII", hyperlink |-> 0]

BlankCell(sgr) == [ch |-> " ", sgr |-> sgr, hl |-> 0]
defaultLineFlags == reflowOnResize
\* Line::reset(flags, sgr): a trivial (not inflated) line of blank cells.
BlankLine(columns, wrappable, sgr) ==
    [cells |-> [c \in 1 .. columns |-> BlankCell(sgr)],
     wrappable |-> wrappable, wrapped |-> FALSE, trivial |-> TRUE]

FullMargin(ps) == [vert |-> [from |-> 0, to |-> ps.lines - 1],
                   hori |-> [from |-> 0, to |-> ps.columns - 1]]

\* The screen as one value, so that a handler can be composed of the calls it makes.
Cur == [pageSize |-> pageSize, cursor |-> cursor, savedCursor |-> savedCursor,
        margin |-> margin, modes |-> modes, savedModes |-> savedModes,
        lines |-> lines, history |-> history, tabs |-> tabs, status |-> status]

Commit(s) ==
    /\ pageSize' = s.pageSize
    /\ cursor' = s.cursor
    /\ savedCursor' = s.savedCursor
    /\ margin' = s.margin
    /\ modes' = s.modes
    /\ savedModes' = s.savedModes
    /\ lines' = s.lines
    /\ history' = s.history
    /\ tabs' = s.tabs
    /\ status' = s.status
    /\ UNCHANGED << reflowOnResize, maxHistoryLineCount, usingStdoutFastPipe >>

CursorOnPage(s) ==
    /\ 0 <= s.cursor.line /\ s.cursor.line < s.pageSize.lines
    /\ 0 <= s.cursor.column /\ s.cursor.column < s.pageSize.columns

\* A handler that dereferences the cursor's line or cell while the cursor is
\* off the page reads or writes outside the grid.
Fault(s) == [s EXCEPT !.status = "fault"]

----------------------------------------------------------------------------
(* Screen.h accessors *)

realCursorPosition(s) == [line |-> s.cursor.line, column |-> s.cursor.column]

logicalCursorPosition(s) ==
    IF ~s.cursor.originMode
    THEN realCursorPosition(s)
    ELSE [line |-> s.cursor.line - s.margin.vert.from,
          column |-> s.cursor.column - s.margin.hori.from]

clampToScreen(s, line, column) ==
    [line |-> Clamp(line, 0, s.pageSize.lines - 1),
     column |-> Clamp(column, 0, s.pageSize.columns - 1)]

clampCoordinate(s, line, column) == clampToScreen(s, line, column)

isFullHorizontalMargins(s) ==
    s.margin.hori.from = 0 /\ s.margin.hori.to = s.pageSize.columns - 1

isCursorInsideMargins(s) ==
    LET insideVerticalMargin ==
            s.margin.vert.from <= s.cursor.line /\ s.cursor.line <= s.margin.vert.to
        insideHorizontalMargin ==
            \/ ~s.modes["LeftRightMargin"]
            \/ (s.margin.hori.from <= s.cursor.column /\ s.cursor.column <= s.margin.hori.to)
    IN insideVerticalMargin /\ insideHorizontalMargin

----------------------------------------------------------------------------
(* Grid: scrolling.  The grid keeps the page in `lines` and the scrollback  *)
(* in `history`; a scroll of the full page appends to the scrollback and    *)
(* evicts its oldest lines beyond maxHistoryLineCount.                      *)

NewLines(s, n, sgr) ==
    [i \in 1 .. n |-> BlankLine(s.pageSize.columns, defaultLineFlags, sgr)]

\* Grid::scrollUp(n, sgr) on the full page.
GridScrollUpFullPage(s, n, sgr) ==
    LET all == s.history \o s.lines \o NewLines(s, n, sgr)
        total == Len(all)
        kept == SubSeq(all, 1, total - s.pageSize.lines)
        over == Len(kept) - maxHistoryLineCount
    IN [s EXCEPT !.lines = SubSeq(all, total - s.pageSize.lines + 1, total),
                 !.history = IF over > 0 THEN SubSeq(kept, over + 1, Len(kept)) ELSE kept]

\* Scrolling whole lines inside a vertical margin: the lines scrolled out are discarded.
GridScrollUpLines(s, n, sgr, m) ==
    LET height == m.vert.to - m.vert.from + 1
        k == Min(n, height)
    IN [s EXCEPT !.lines =
            [y \in 1 .. s.pageSize.lines |->
                IF y - 1 < m.vert.from \/ y - 1 > m.vert.to THEN s.lines[y]
                ELSE IF y - 1 + k <= m.vert.to THEN s.lines[y + k]
                ELSE BlankLine(s.pageSize.columns, defaultLineFlags, sgr)]]

\* Scrolling the cells of a rectangle (a margin narrower than the page).
GridScrollUpCells(s, n, sgr, m) ==
    LET height == m.vert.to - m.vert.from + 1
        k == Min(n, height)
        inside(y, x) == /\ m.vert.from <= y - 1 /\ y - 1 <= m.vert.to
                        /\ m.hori.from <= x - 1 /\ x - 1 <= m.hori.to
    IN [s EXCEPT !.lines =
            [y \in 1 .. s.pageSize.lines |->
                [s.lines[y] EXCEPT
                    !.trivial = IF m.vert.from <= y - 1 /\ y - 1 <= m.vert.to THEN FALSE ELSE @,
                    !.cells = [x \in 1 .. s.pageSize.columns |->
                        IF ~inside(y, x) THEN s.lines[y].cells[x]
                        ELSE IF y - 1 + k <= m.vert.to THEN s.lines[y + k].cells[x]
                        ELSE BlankCell(sgr)]]]]

\* Grid::scrollUp(n, sgr, margin): history only when the margin is the full page.
GridScrollUp(s, n, sgr, m) ==
    IF m.hori.from = 0 /\ m.hori.to = s.pageSize.columns - 1
    THEN IF m.vert.from = 0 /\ m.vert.to = s.pageSize.lines - 1
         THEN GridScrollUpFullPage(s, n, sgr)
         ELSE GridScrollUpLines(s, n, sgr, m)
    ELSE GridScrollUpCells(s, n, sgr, m)

----------------------------------------------------------------------------
(* Screen: cursor motion and scrolling *)

\* a scrollUp that scrolls one line more than asked
scrollUpOneMore(s, n, sgr, m) == GridScrollUp(s, n + 1, sgr, m)

\* Screen::scrollUp(n, sgr, margin)
scrollUp(s, n, sgr, m) == GridScrollUp(s, n, sgr, m)

\* Screen::linefeed(column_offset)
linefeed(s, newColumn) ==
    LET s1 == [s EXCEPT !.cursor.wrapPending = FALSE, !.cursor.column = newColumn]
    IN IF realCursorPosition(s1).line = s1.margin.vert.to
       THEN scrollUp(s1, 1, s1.cursor.sgr, s1.margin)
       ELSE [s1 EXCEPT !.cursor.line = @ + 1]

\* a linefeed() that always returns to the left margin
linefeedLFToLeftMargin(s) ==
    LET newColumnOffset == s.margin.hori.from
    IN linefeed(s, newColumnOffset)

\* Screen::linefeed(): LF.  usingStdoutFastPipe stands for the whole condition
\* of the source, _state.usingStdoutFastPipe || AutomaticNewLine.
linefeedLF(s) ==
    LET newColumnOffset == IF usingStdoutFastPipe THEN s.margin.hori.from ELSE s.cursor.column
    IN linefeed(s, newColumnOffset)

\* Screen::crlf()
crlf(s) == linefeed(s, s.margin.hori.from)

\* Screen::moveCursorTo
moveCursorTo(s, line, column) ==
    LET l == IF s.cursor.originMode THEN line + s.margin.vert.from ELSE line
        c == IF s.cursor.originMode THEN column + s.margin.hori.from ELSE column
        p == clampToScreen(s, l, c)
    IN [s EXCEPT !.cursor.wrapPending = FALSE, !.cursor.line = p.line, !.cursor.column = p.column]

\* Screen::setCurrentColumn
setCurrentColumn(s, n) ==
    LET col == IF s.cursor.originMode THEN s.margin.hori.from + n ELSE n
        clampedCol == Min(col, s.pageSize.columns - 1)
    IN [s EXCEPT !.cursor.wrapPending = FALSE, !.cursor.column = clampedCol]

\* Screen::backspace
backspace(s) ==
    IF s.cursor.column # 0 THEN [s EXCEPT !.cursor.column = @ - 1] ELSE s

\* Screen::moveCursorUp
moveCursorUp(s, n) ==
    LET ll == logicalCursorPosition(s).line
        sanitizedN == Min(n, IF ll > s.margin.vert.from THEN ll - s.margin.vert.from ELSE ll)
    IN [s EXCEPT !.cursor.wrapPending = FALSE, !.cursor.line = @ - sanitizedN]

\* Screen::moveCursorDown
moveCursorDown(s, n) ==
    LET currentLineNumber == logicalCursorPosition(s).line
        sanitizedN == Min(n, IF currentLineNumber <= s.margin.vert.to
                             THEN s.margin.vert.to - currentLineNumber
                             ELSE (s.pageSize.lines - 1) - currentLineNumber)
    IN [s EXCEPT !.cursor.wrapPending = FALSE, !.cursor.line = @ + sanitizedN]

\* Screen::moveCursorForward
moveCursorForward(s, n) ==
    [s EXCEPT !.cursor.wrapPending = FALSE,
              !.cursor.column = Min(s.cursor.column + n, s.margin.hori.to)]

\* Screen::moveCursorBackward
moveCursorBackward(s, n) ==
    LET sanitizedN == Min(n, s.cursor.column)
    IN setCurrentColumn([s EXCEPT !.cursor.wrapPending = FALSE], s.cursor.column - sanitizedN)

\* Screen::moveCursorToNextLine / moveCursorToPrevLine
moveCursorToNextLine(s, n) == moveCursorTo(s, logicalCursorPosition(s).line + n, 0)
moveCursorToPrevLine(s, n) ==
    LET sanitizedN == Min(n, logicalCursorPosition(s).line)
    IN moveCursorTo(s, logicalCursorPosition(s).line - sanitizedN, 0)

\* Screen::index / Screen::reverseIndex
index(s) ==
    IF realCursorPosition(s).line = s.margin.vert.to
    THEN scrollUp(s, 1, s.cursor.sgr, s.margin)
    ELSE moveCursorDown(s, 1)

\* a deleteLines that scrolls from the top of the page instead of the cursor's line
deleteLinesFromTop(s, n) ==
    IF isCursorInsideMargins(s)
    THEN scrollUp(s, n, s.cursor.sgr,
                  [vert |-> [from |-> 0, to |-> s.margin.vert.to], hori |-> s.margin.hori])
    ELSE s

\* Screen::deleteLines
deleteLines(s, n) ==
    IF isCursorInsideMargins(s)
    THEN scrollUp(s, n, s.cursor.sgr,
                  [vert |-> [from |-> s.cursor.line, to |-> s.margin.vert.to],
                   hori |-> s.margin.hori])
    ELSE s

----------------------------------------------------------------------------
(* Screen: state verification, saved cursor, modes and margins *)

\* Screen::verifyState: a failed Require or fail() aborts the process.
verifyState(s) ==
    IF /\ 0 <= s.margin.hori.from /\ s.margin.hori.to < s.pageSize.columns
       /\ 0 <= s.margin.vert.from /\ s.margin.vert.to < s.pageSize.lines
       /\ s.cursor.column < s.pageSize.columns
       /\ s.cursor.line < s.pageSize.lines
       /\ realCursorPosition(s) = clampToScreen(s, s.cursor.line, s.cursor.column)
    THEN s
    ELSE [s EXCEPT !.status = "aborted"]

\* Terminal::setMode(DECMode, enable)
setMode(s, mode, enable) ==
    LET s1 == CASE mode = "AutoWrap" -> [s EXCEPT !.cursor.autoWrap = enable]
                [] mode = "Origin" -> [s EXCEPT !.cursor.originMode = enable]
                [] mode = "LeftRightMargin" /\ ~enable ->
                       [s EXCEPT !.margin.hori = [from |-> 0, to |-> s.pageSize.columns - 1]]
                [] OTHER -> s
    IN [s1 EXCEPT !.modes[mode] = enable]

\* Screen::saveCursor
saveCursor(s) == [s EXCEPT !.savedCursor = s.cursor]

\* a DECRC that brings back the saved position only
restoreCursorPosition(s) ==
    LET p == clampCoordinate(s, s.savedCursor.line, s.savedCursor.column)
    IN verifyState([s EXCEPT !.cursor.line = p.line, !.cursor.column = p.column])

\* Screen::restoreCursor(savedCursor)
restoreCursor(s) ==
    LET saved == s.savedCursor
        p == clampCoordinate(s, saved.line, saved.column)
        s1 == [s EXCEPT !.cursor = [saved EXCEPT !.line = p.line, !.column = p.column]]
        s2 == setMode(s1, "AutoWrap", saved.autoWrap)
        s3 == setMode(s2, "Origin", saved.originMode)
    IN verifyState(s3)

\* Modes::save, for one mode
ModesSave(s, mode) ==
    [s EXCEPT !.savedModes[mode] = Append(@, s.modes[mode])]

\* a restore that takes the oldest saved value instead of the newest
ModesRestoreOldest(s, mode) ==
    IF s.savedModes[mode] # << >>
    THEN [s EXCEPT !.modes[mode] = s.savedModes[mode][1],
                   !.savedModes[mode] = Tail(s.savedModes[mode])]
    ELSE s

\* Modes::restore, for one mode
ModesRestore(s, mode) ==
    IF s.savedModes[mode] # << >>
    THEN LET saved == s.savedModes[mode]
         IN [s EXCEPT !.modes[mode] = saved[Len(saved)],
                      !.savedModes[mode] = SubSeq(saved, 1, Len(saved) - 1)]
    ELSE s

\* Terminal::setTopBottomMargin; an omitted bound arrives as -1 (decr of no value).
setTopBottomMargin(s, top, bottom) ==
    LET defaultTop == 0
        defaultBottom == s.pageSize.lines - 1
        sanitizedTop == Max(defaultTop, IF top < 0 THEN defaultTop ELSE top)
        sanitizedBottom == Min(defaultBottom, IF bottom < 0 THEN defaultBottom ELSE bottom)
    IN IF sanitizedTop < sanitizedBottom
       THEN [s EXCEPT !.margin.vert = [from |-> sanitizedTop, to |-> sanitizedBottom]]
       ELSE s

\* Terminal::setLeftRightMargin
setLeftRightMargin(s, left, right) ==
    IF s.modes["LeftRightMargin"]
    THEN LET defaultLeft == 0
             defaultRight == s.pageSize.columns - 1
             sanitizedLeft == Max(defaultLeft, IF left < 0 THEN defaultLeft ELSE left)
             sanitizedRight == Min(defaultRight, IF right < 0 THEN defaultRight ELSE right)
         IN IF sanitizedLeft < sanitizedRight
            THEN [s EXCEPT !.margin.hori = [from |-> sanitizedLeft, to |-> sanitizedRight]]
            ELSE s
    ELSE s

\* decr(seq.param_opt(i)): parameter 0 is "no value"
DecrOpt(p) == p - 1

----------------------------------------------------------------------------
(* Screen: text entry.  The printable characters of the model are capital   *)
(* letters and digits: one cell wide, always grapheme-breakable, and mapped *)
(* to themselves by every charset.                                          *)

currentLine(s) == s.lines[s.cursor.line + 1]

\* Line::empty
LineEmpty(ln) == \A c \in DOMAIN ln.cells : ln.cells[c].ch = " "

\* a crlfIfWrapPending that flags the line it leaves instead of the line it enters
crlfIfWrapPendingFlagsFilled(s) ==
    IF s.cursor.wrapPending /\ s.cursor.autoWrap
    THEN LET lineWrappable == currentLine(s).wrappable
             s1 == crlf(IF lineWrappable
                        THEN [s EXCEPT !.lines[s.cursor.line + 1].wrapped = TRUE]
                        ELSE s)
         IN IF ~CursorOnPage(s1) THEN Fault(s1) ELSE s1
    ELSE s

\* Screen::crlfIfWrapPending
crlfIfWrapPending(s) ==
    IF s.cursor.wrapPending /\ s.cursor.autoWrap
    THEN LET lineWrappable == currentLine(s).wrappable
             s1 == crlf(s)
         IN IF ~CursorOnPage(s1) THEN Fault(s1)
            ELSE IF lineWrappable
                 THEN [s1 EXCEPT !.lines[s1.cursor.line + 1].wrappable = TRUE,
                                 !.lines[s1.cursor.line + 1].wrapped = TRUE]
                 ELSE s1
    ELSE s

\* a clearAndAdvance that stops at the last column without a pending wrap
clearAndAdvanceNoWrap(s, offset) ==
    LET cursorInsideMargin == s.modes["LeftRightMargin"] /\ isCursorInsideMargins(s)
        cellsAvailable == IF cursorInsideMargin
                          THEN s.margin.hori.to - s.cursor.column - 1
                          ELSE s.pageSize.columns - s.cursor.column - 1
        n == Min(offset, cellsAvailable)
    IN IF offset = 0 THEN s
       ELSE IF n = offset THEN [s EXCEPT !.cursor.column = @ + n]
       ELSE s

\* Screen::clearAndAdvance (offset is the width of the cell just written)
clearAndAdvance(s, offset) ==
    LET cursorInsideMargin == s.modes["LeftRightMargin"] /\ isCursorInsideMargins(s)
        cellsAvailable == IF cursorInsideMargin
                          THEN s.margin.hori.to - s.cursor.column - 1
                          ELSE s.pageSize.columns - s.cursor.column - 1
        n == Min(offset, cellsAvailable)
    IN IF offset = 0 THEN s
       ELSE IF n = offset THEN [s EXCEPT !.cursor.column = @ + n]
       ELSE IF s.cursor.autoWrap THEN [s EXCEPT !.cursor.wrapPending = TRUE]
       ELSE s

\* Screen::writeCharToCurrentAndAdvance
writeCharToCurrentAndAdvance(s, codepoint) ==
    LET cell == [ch |-> codepoint, sgr |-> s.cursor.sgr, hl |-> s.cursor.hyperlink]
        s1 == [s EXCEPT !.lines[s.cursor.line + 1].cells[s.cursor.column + 1] = cell,
                        !.lines[s.cursor.line + 1].trivial = FALSE]
    IN clearAndAdvance(s1, 1)

\* Screen::writeTextInternal
writeTextInternal(s, codepoint) ==
    LET s1 == crlfIfWrapPending(s)
    IN IF s1.status # "running" THEN s1 ELSE writeCharToCurrentAndAdvance(s1, codepoint)

\* the per-codepoint path: printUtf8Byte for every byte of the run
RECURSIVE writeEach(_, _)
writeEach(s, chars) ==
    IF chars = << >> \/ s.status # "running" THEN s
    ELSE writeEach(writeTextInternal(s, Head(chars)), Tail(chars))

\* Screen::advanceCursorAfterWrite
advanceCursorAfterWrite(s, n) ==
    IF s.cursor.column + n < s.pageSize.columns
    THEN [s EXCEPT !.cursor.column = @ + n]
    ELSE [s EXCEPT !.cursor.column = @ + n - 1, !.cursor.wrapPending = TRUE]

\* the cells a trivial line buffer shows for the run `chars` placed at `column`
EmplacedCells(s, ln, column, chars) ==
    [c \in DOMAIN ln.cells |->
        IF column < c /\ c <= column + Len(chars)
        THEN [ch |-> chars[c - column], sgr |-> s.cursor.sgr, hl |-> s.cursor.hyperlink]
        ELSE ln.cells[c]]

\* Screen::emplaceCharsIntoCurrentLine
emplaceCharsIntoCurrentLine(s, chars) ==
    LET ln == currentLine(s)
    IN IF ln.trivial /\ LineEmpty(ln)
       THEN advanceCursorAfterWrite(
                [s EXCEPT !.lines[s.cursor.line + 1].cells = EmplacedCells(s, ln, 0, chars)],
                Len(chars))
       ELSE writeEach(s, chars)

\* Screen::tryEmplaceChars followed by the rest of Screen::writeText(text, cellCount);
\* `contiguous` is whether the run directly follows the line's text in the PTY buffer.
writeText(s, chars, contiguous) ==
    IF ~isFullHorizontalMargins(s) \/ s.cursor.charset # "USASCII"
    THEN writeEach(s, chars)
    ELSE LET s1 == crlfIfWrapPending(s)
             ln == currentLine(s1)
         IN IF s1.status # "running" THEN s1
            ELSE IF ~s1.modes["AutoWrap"] /\ Len(chars) > s1.pageSize.columns - s1.cursor.column
                 THEN writeEach(s1, chars)
            ELSE IF s1.cursor.column = 0
                 THEN IF LineEmpty(ln) THEN emplaceCharsIntoCurrentLine(s1, chars)
                      ELSE writeEach(s1, chars)
            ELSE IF contiguous /\ ln.trivial
                 THEN advanceCursorAfterWrite(
                          [s1 EXCEPT !.lines[s1.cursor.line + 1].cells =
                               EmplacedCells(s1, ln, s1.cursor.column, chars)],
                          Len(chars))
            ELSE writeEach(s1, chars)

\* Screen::moveCursorToBeginOfLine
moveCursorToBeginOfLine(s) == setCurrentColumn(s, 0)

\* Screen::setForegroundColor
setForegroundColor(s, color) == [s EXCEPT !.cursor.sgr.fg = color]

\* Screen::designateCharset (G0, the table in use)
designateCharset(s, charset) == [s EXCEPT !.cursor.charset = charset]

\* Screen::hyperlink; the model knows one link, registered under id 1.
hyperlink(s, uri) == [s EXCEPT !.cursor.hyperlink = IF uri = "" THEN 0 ELSE 1]

----------------------------------------------------------------------------
(* The operations as steps of the state machine *)

NoLast == [op |-> "none", arg |-> << >>, pre |-> << >>]
NoSave == [n |-> -1, cursor |-> << >>]
NoMonitor == [stage |-> 0, mode |-> "", v |-> FALSE]
NoInput == [on |-> FALSE, seq |-> << >>]

\* progress of the pattern save(m); set(m); reset(m); restore(m)
MonitorNext(op, arg) ==
    IF op = "XTSAVE"
    THEN [stage |-> 1, mode |-> arg[1], v |-> modes[arg[1]]]
    ELSE IF /\ monitor.stage = 1 /\ op = "DECSM" /\ arg[1] = monitor.mode
         THEN [monitor EXCEPT !.stage = 2]
    ELSE IF /\ monitor.stage = 2 /\ op = "DECRM" /\ arg[1] = monitor.mode
         THEN [monitor EXCEPT !.stage = 3]
    ELSE IF /\ monitor.stage = 3 /\ op = "XTRESTORE" /\ arg[1] = monitor.mode
         THEN [monitor EXCEPT !.stage = 4]
    ELSE NoMonitor

SinceSaveNext(op) ==
    IF op = "DECSC" THEN [n |-> 0, cursor |-> cursor]
    ELSE IF sinceSave.n >= 0 THEN [sinceSave EXCEPT !.n = Min(@ + 1, 3)]
    ELSE sinceSave

\* One operation: s2 is the screen the handler leaves behind.
Step(op, arg, s2) ==
    /\ status = "running"
    /\ steps > 0
    /\ Commit(s2)
    /\ last' = [op |-> op, arg |-> arg, pre |-> Cur]
    /\ sinceSave' = SinceSaveNext(op)
    /\ monitor' = MonitorNext(op, arg)
    /\ input' = IF input.on /\ op \in {"Text", "LF"}
                THEN [input EXCEPT !.seq = @ \o (IF op = "LF" THEN << "LF" >> ELSE arg[1])]
                ELSE input
    /\ steps' = steps - 1
    /\ UNCHANGED << renderVars, ptyVars, ioVars, seqVars, appVars >>

\* Screen::applyAndLog: a function that applied verifies the state afterwards.
applyAndLog(s2) == verifyState(s2)

\* a handler that uses the cursor's line while the cursor is off the page
OnPageOrFault(s, s2) == IF CursorOnPage(s) THEN s2 ELSE Fault(s)

CUP == \E l, c \in Params :
    Step("CUP", << l, c >>, applyAndLog(moveCursorTo(Cur, ParamOr(l, 1) - 1, ParamOr(c, 1) - 1)))
CUU == \E n \in Params : Step("CUU", << n >>, applyAndLog(moveCursorUp(Cur, ParamOr(n, 1))))
CUD == \E n \in Params : Step("CUD", << n >>, applyAndLog(moveCursorDown(Cur, ParamOr(n, 1))))
CUF == \E n \in Params : Step("CUF", << n >>, applyAndLog(moveCursorForward(Cur, ParamOr(n, 1))))
CUB == \E n \in Params : Step("CUB", << n >>, applyAndLog(moveCursorBackward(Cur, ParamOr(n, 1))))
LF == Step("LF", << >>, linefeedLF(Cur))
IND == Step("IND", << >>, applyAndLog(index(Cur)))
CR == Step("CR", << >>, moveCursorToBeginOfLine(Cur))
BS == Step("BS", << >>, backspace(Cur))
DECSTBM == \E t, b \in Params :
    Step("DECSTBM", << t, b >>,
         applyAndLog(moveCursorTo(setTopBottomMargin(Cur, DecrOpt(t), DecrOpt(b)), 0, 0)))
DECSLRM == \E l, r \in Params :
    Step("DECSLRM", << l, r >>,
         applyAndLog(moveCursorTo(setLeftRightMargin(Cur, DecrOpt(l), DecrOpt(r)), 0, 0)))
DECSM == \E m \in DECModes : Step("DECSM", << m >>, applyAndLog(setMode(Cur, m, TRUE)))
DECRM == \E m \in DECModes : Step("DECRM", << m >>, applyAndLog(setMode(Cur, m, FALSE)))
DECSC == Step("DECSC", << >>, applyAndLog(saveCursor(Cur)))
DECRC == Step("DECRC", << >>, applyAndLog(restoreCursor(Cur)))
XTSAVE == \E m \in DECModes : Step("XTSAVE", << m >>, applyAndLog(ModesSave(Cur, m)))
XTRESTORE == \E m \in DECModes : Step("XTRESTORE", << m >>, applyAndLog(ModesRestore(Cur, m)))
SGR == \E c \in {0, 1} : Step("SGR", << c >>, applyAndLog(setForegroundColor(Cur, c)))
SCS == \E cs \in {"USASCII", "Special"} : Step("SCS", << cs >>, applyAndLog(designateCharset(Cur, cs)))
OSC8 == \E uri \in {"", "u"} : Step("OSC8", << uri >>, applyAndLog(hyperlink(Cur, uri)))
SU == \E n \in Params :
    Step("SU", << n >>, applyAndLog(scrollUp(Cur, ParamOr(n, 1), cursor.sgr, margin)))
DL == \E n \in Params : Step("DL", << n >>, applyAndLog(deleteLines(Cur, ParamOr(n, 1))))

\* the runs of 1..maxLen printable characters over an alphabet
Runs(alphabet, maxLen) == UNION { [1 .. n -> alphabet] : n \in 1 .. maxLen }

\* Screen::writeText(char32_t): one printable character
TextChar(alphabet) == \E ch \in alphabet :
    Step("Text", << << ch >> >>, OnPageOrFault(Cur, writeTextInternal(Cur, ch)))

\* Screen::writeText(text, cellCount): a run of printable characters that fits the line
TextRun(alphabet) ==
    \E chars \in Runs(alphabet, pageSize.columns - cursor.column),
       contiguous \in (IF last.op = "Text" THEN BOOLEAN ELSE {FALSE}) :
        Step("Text", << chars >>, OnPageOrFault(Cur, writeText(Cur, chars, contiguous)))

----------------------------------------------------------------------------
(* Initial states *)

InitRender ==
    /\ passiveUpdate = FALSE
    /\ currentBackBufferIndex = 0
    /\ rbState = "WaitingForRefresh"
    /\ readerLock = "free"
    /\ buffers = << << 0, 0 >>, << 0, 0 >> >>
    /\ producerPc = "idle"
    /\ rendererPc = "idle"
    /\ rendererRef = 0
    /\ rendererSeen = << >>
    /\ frames = 0
    /\ parserPc = "idle"

\* UnixPty::start: the master and the fast pipe's reader are open and non-blocking;
\* nothing has been read or written
InitIo ==
    [masterFd |-> "open", blocking |-> FALSE, fastPipe |-> "open",
     lastRead |-> [ready |-> {}, rv |-> 0, err |-> "-", value |-> "-", bytes |-> 0,
                   errno |-> "-", fromFastPipe |-> FALSE],
     lastWrite |-> [size |-> 0, rv |-> 0, second |-> << >>, result |-> 0]]

\* Sequencer's constructor: no parameter has been collected and nothing dispatched
NoSequencer ==
    [input |-> << >>, rest |-> << >>, values |-> << 0 >>, sub |-> << FALSE >>,
     rendition |-> << >>, before |-> << >>, dispatched |-> FALSE]

\* HyperlinkStorage's constructor: no link is stored, the first id is 1
NoHyperlinks == [nextHyperlinkId |-> 1, cache |-> << >>]

\* TerminalSession with its display attached: no capture is pending, no
\* permission is remembered; requested, asked and sent record what happened
\* (the requests stored, the permission dialogs raised, the captures executed)
NoSession ==
    [display |-> TRUE, pendingBufferCapture |-> << >>, rememberedPermissions |-> << >>,
     requested |-> 0, asked |-> 0, sent |-> << >>]

\* ViInputHandler's constructor for an initial mode: search editing is
\* Disabled; startedIn records the mode in which the search being edited was
\* started externally
NoVi(initialMode) ==
    [viMode |-> initialMode, searchEditMode |-> "Disabled", searchTerm |-> << >>,
     startedIn |-> << >>]

InitApp ==
    /\ hyperlinks = NoHyperlinks
    /\ session = NoSession
    /\ vi = NoVi("Insert")

InitPtyOnly ==
    /\ ptyKind = "UnixPty"
    /\ terminating = FALSE
    /\ loopPc = "check"
    /\ wakeupPending = "none"
    /\ dataPending = [chunks |-> 0, eof |-> FALSE]
    /\ chunksRead = 0
    /\ closerPc = "idle"
    /\ ptyIo = InitIo
    /\ sequencer = NoSequencer

InitPty ==
    /\ InitPtyOnly
    /\ InitApp

InitObservers(maxSteps) ==
    /\ last = NoLast
    /\ sinceSave = NoSave
    /\ monitor = NoMonitor
    /\ input = NoInput
    /\ steps = maxSteps

\* Screen's constructor for a page of the given size: cursor at home, margins
\* the full page, the modes of a fresh terminal (DECAWM set).
InitScreen(ps, maxHistory, reflow) ==
    /\ pageSize = ps
    /\ reflowOnResize = reflow
    /\ maxHistoryLineCount = maxHistory
    /\ usingStdoutFastPipe = FALSE
    /\ cursor = DefaultCursor
    /\ savedCursor = DefaultCursor
    /\ margin = FullMargin(ps)
    /\ modes = [m \in DECModes |-> m = "AutoWrap"]
    /\ savedModes = [m \in DECModes |-> << >>]
    /\ lines = [i \in 1 .. ps.lines |-> BlankLine(ps.columns, reflow, DefaultSGR)]
    /\ history = << >>
    /\ tabs = << >>
    /\ status = "running"

----------------------------------------------------------------------------
(* Specification of cursor motion: a 3x3 page driven by the cursor and     *)
(* margin sequences.                                                        *)

Page3x3 == [lines |-> 3, columns |-> 3]

Init ==
    /\ InitScreen(Page3x3, 0, TRUE)
    /\ InitObservers(MaxSteps)
    /\ InitRender
    /\ InitPty

Next ==
    \/ CUP \/ CUU \/ CUD \/ CUF \/ CUB
    \/ LF \/ IND \/ CR \/ BS
    \/ DECSTBM
    \/ DECSM \/ DECRM
    \/ DECSC \/ DECRC

Spec == Init /\ [][Next]_vars

\* C1: in every reachable state of a running screen the cursor is on the page:
\* 0 <= line < pageSize.lines and 0 <= column < pageSize.columns.
C1_CursorAlwaysOnPage == status = "running" => CursorOnPage(Cur)

----------------------------------------------------------------------------
(* The render double buffer.  A buffer's content is << cursor, cells >>,    *)
(* each recording the frame it was built for: a snapshot is consistent when *)
(* both carry the same frame.  The thread that refreshes is the terminal    *)
(* thread under passive render-buffer update, else the render thread itself *)
(* at the start of Renderer::render.                                        *)

RenderStep ==
    UNCHANGED << screenVars, observerVars, ptyVars, ioVars, seqVars, appVars, passiveUpdate, parserPc >>

\* a refresh that may run at any point of the frame
ProducerRunsAnyTime == TRUE

\* under active update the refresh runs on the render thread, before it takes the front buffer
ProducerMayRun == passiveUpdate \/ rendererPc = "idle"

\* a frame that may take the front buffer while the refresh is under way
RendererRunsAnyTime == TRUE

RendererMayRun == passiveUpdate \/ producerPc = "idle"

backBuffer == currentBackBufferIndex + 1

\* The terminal mutex is held by the IO thread while it parses and by the
\* refreshing thread while it rebuilds the back buffer (producerPc = "cells").
\* Under passive update the IO thread is the refreshing thread.
RefreshMayLock == IF passiveUpdate THEN parserPc = "idle" ELSE parserPc # "parsing"

\* Terminal::refreshRenderBuffer: start rebuilding the back buffer (its cursor first)
RefreshBegin ==
    /\ ProducerMayRun
    /\ RefreshMayLock
    /\ producerPc = "idle"
    /\ rbState # "TrySwapBuffers"
    /\ frames < MaxFrames
    /\ frames' = frames + 1
    /\ rbState' = "RefreshBuffersAndTrySwap"
    /\ buffers' = [buffers EXCEPT ![backBuffer][1] = frames + 1]
    /\ producerPc' = "cells"
    /\ UNCHANGED << currentBackBufferIndex, readerLock, rendererPc, rendererRef, rendererSeen >>
    /\ RenderStep

\* Terminal::refreshRenderBuffer: the cells of the back buffer; the buffer is ready
RefreshCells ==
    /\ ProducerMayRun
    /\ producerPc = "cells"
    /\ buffers' = [buffers EXCEPT ![backBuffer][2] = frames]
    /\ rbState' = "TrySwapBuffers"
    /\ producerPc' = "swap"
    /\ UNCHANGED << currentBackBufferIndex, readerLock, rendererPc, rendererRef, rendererSeen, frames >>
    /\ RenderStep

\* Terminal::refreshRenderBuffer with a ready back buffer: only try the swap
RefreshRetrySwap ==
    /\ ProducerMayRun
    /\ producerPc = "idle"
    /\ rbState = "TrySwapBuffers"
    /\ producerPc' = "swap"
    /\ UNCHANGED << currentBackBufferIndex, rbState, readerLock, buffers,
                    rendererPc, rendererRef, rendererSeen, frames >>
    /\ RenderStep

\* RenderDoubleBuffer::swapBuffers: readerLock.try_lock()
SwapTryLock ==
    /\ ProducerMayRun
    /\ producerPc = "swap"
    /\ IF readerLock = "free"
       THEN readerLock' = "producer" /\ producerPc' = "flip"
       ELSE readerLock' = readerLock /\ producerPc' = "idle"
    /\ UNCHANGED << currentBackBufferIndex, rbState, buffers, rendererPc, rendererRef,
                    rendererSeen, frames >>
    /\ RenderStep

\* RenderDoubleBuffer::swapBuffers: exchange front and back, unlock
SwapFlip ==
    /\ ProducerMayRun
    /\ producerPc = "flip"
    /\ currentBackBufferIndex' = (currentBackBufferIndex + 1) % 2
    /\ rbState' = "WaitingForRefresh"
    /\ readerLock' = "free"
    /\ producerPc' = "idle"
    /\ UNCHANGED << buffers, rendererPc, rendererRef, rendererSeen, frames >>
    /\ RenderStep

\* RenderDoubleBuffer::frontBuffer: the front buffer is chosen from currentBackBufferIndex
FrontBufferSelect ==
    /\ RendererMayRun
    /\ rendererPc = "idle"
    /\ rendererRef' = (currentBackBufferIndex + 1) % 2
    /\ rendererSeen' = << >>
    /\ rendererPc' = "lock"
    /\ UNCHANGED << currentBackBufferIndex, rbState, readerLock, buffers, producerPc, frames >>
    /\ RenderStep

\* RenderBufferRef::RenderBufferRef: guard.lock()
RenderBufferRefLock ==
    /\ rendererPc = "lock"
    /\ readerLock = "free"
    /\ readerLock' = "renderer"
    /\ rendererPc' = "cursor"
    /\ UNCHANGED << currentBackBufferIndex, rbState, buffers, producerPc, rendererRef,
                    rendererSeen, frames >>
    /\ RenderStep

\* Renderer::render: cursorOpt = renderBuffer.get().cursor
RenderReadCursor ==
    /\ rendererPc = "cursor"
    /\ rendererSeen' = << buffers[rendererRef + 1][1] >>
    /\ rendererPc' = "cells"
    /\ UNCHANGED << currentBackBufferIndex, rbState, readerLock, buffers, producerPc,
                    rendererRef, frames >>
    /\ RenderStep

\* Renderer::render: renderCells(renderBuffer.get().cells)
RenderReadCells ==
    /\ rendererPc = "cells"
    /\ rendererSeen' = Append(rendererSeen, buffers[rendererRef + 1][2])
    /\ rendererPc' = "unlock"
    /\ UNCHANGED << currentBackBufferIndex, rbState, readerLock, buffers, producerPc,
                    rendererRef, frames >>
    /\ RenderStep

\* RenderBufferRef::~RenderBufferRef: guard.unlock()
RenderBufferRefUnlock ==
    /\ rendererPc = "unlock"
    /\ readerLock' = "free"
    /\ rendererPc' = "idle"
    /\ UNCHANGED << currentBackBufferIndex, rbState, buffers, producerPc, rendererRef,
                    rendererSeen, frames >>
    /\ RenderStep

InitRenderBuild ==
    /\ passiveUpdate \in BOOLEAN
    /\ currentBackBufferIndex = 0
    /\ rbState = "WaitingForRefresh"
    /\ readerLock = "free"
    /\ buffers = << << 0, 0 >>, << 0, 0 >> >>
    /\ producerPc = "idle"
    /\ rendererPc = "idle"
    /\ rendererRef = 0
    /\ rendererSeen = << >>
    /\ frames = 0
    /\ parserPc = "idle"

RenderInit ==
    /\ InitScreen(Page3x3, 0, TRUE)
    /\ InitObservers(0)
    /\ InitRenderBuild
    /\ InitPty

RenderNext ==
    \/ RefreshBegin \/ RefreshCells \/ RefreshRetrySwap \/ SwapTryLock \/ SwapFlip
    \/ FrontBufferSelect \/ RenderBufferRefLock \/ RenderReadCursor \/ RenderReadCells
    \/ RenderBufferRefUnlock

RenderSpec == RenderInit /\ [][RenderNext]_vars

RendererHoldsRef == rendererPc \in {"cursor", "cells", "unlock"}
ProducerWriting == producerPc = "cells"

\* C2: while the renderer holds its reference to the front buffer the producer
\* does not write that buffer, and what the renderer reads through the
\* reference is one snapshot: cursor and cells of the same frame.
C2_NoTornRead ==
    /\ RendererHoldsRef /\ ProducerWriting => rendererRef # currentBackBufferIndex
    /\ Len(rendererSeen) = 2 => rendererSeen[1] = rendererSeen[2]

----------------------------------------------------------------------------
(* The session's input loop and the PTY it reads from.                      *)

PtyStep == UNCHANGED << screenVars, observerVars, renderVars, ioVars, seqVars, appVars, ptyKind >>

\* TerminalSession::mainLoop: while (!terminating_)
LoopCheck ==
    /\ loopPc = "check"
    /\ loopPc' = IF terminating THEN "exited" ELSE "read"
    /\ UNCHANGED << terminating, wakeupPending, dataPending, chunksRead, closerPc >>
    /\ PtyStep

\* Pty::read returns output of the child; processInputOnce parses it and returns true
ReadData ==
    /\ loopPc = "read"
    /\ dataPending.chunks > 0
    /\ dataPending' = [dataPending EXCEPT !.chunks = @ - 1]
    /\ chunksRead' = chunksRead + 1
    /\ loopPc' = "check"
    /\ UNCHANGED << terminating, wakeupPending, closerPc >>
    /\ PtyStep

\* Pty::read fails because the PTY is closed; processInputOnce returns false, the loop breaks
ReadClosed ==
    /\ loopPc = "read"
    /\ dataPending.chunks = 0
    /\ dataPending.eof
    /\ loopPc' = "exited"
    /\ UNCHANGED << terminating, wakeupPending, dataPending, chunksRead, closerPc >>
    /\ PtyStep

\* UnixPty::read: the selector times out (EAGAIN); ConPty::read ignores its timeout
ReadTimeout ==
    /\ loopPc = "read"
    /\ ptyKind = "UnixPty"
    /\ loopPc' = "check"
    /\ UNCHANGED << terminating, wakeupPending, dataPending, chunksRead, closerPc >>
    /\ PtyStep

\* UnixPty::read: the selector is woken through the wakeup pipe (EINTR)
ReadWakeup ==
    /\ loopPc = "read"
    /\ ptyKind = "UnixPty"
    /\ wakeupPending = "pending"
    /\ wakeupPending' = "consumed"
    /\ loopPc' = "check"
    /\ UNCHANGED << terminating, dataPending, chunksRead, closerPc >>
    /\ PtyStep

\* the child writes output
ChildOutput ==
    /\ ~dataPending.eof
    /\ dataPending.chunks + chunksRead < MaxChunks
    /\ dataPending' = [dataPending EXCEPT !.chunks = @ + 1]
    /\ UNCHANGED << terminating, loopPc, wakeupPending, chunksRead, closerPc >>
    /\ PtyStep

\* the child exits and its side of the PTY closes
ChildExit ==
    /\ ~dataPending.eof
    /\ dataPending' = [dataPending EXCEPT !.eof = TRUE]
    /\ UNCHANGED << terminating, loopPc, wakeupPending, chunksRead, closerPc >>
    /\ PtyStep

\* TerminalSession::~TerminalSession: terminating_ = true
SetTerminating ==
    /\ closerPc = "idle"
    /\ terminating' = TRUE
    /\ closerPc' = "flagged"
    /\ UNCHANGED << loopPc, wakeupPending, dataPending, chunksRead >>
    /\ PtyStep

\* a wakeupReader that is empty for both kinds of PTY
wakeupReaderEmpty == wakeupPending

\* UnixPty::wakeupReader writes to the selector's wakeup pipe; ConPty::wakeupReader is empty
wakeupReader == IF ptyKind = "UnixPty" THEN "pending" ELSE wakeupPending

\* TerminalSession::~TerminalSession: terminal_.device().wakeupReader()
WakeupReader ==
    /\ closerPc = "flagged"
    /\ wakeupPending' = wakeupReader
    /\ closerPc' = "joining"
    /\ UNCHANGED << terminating, loopPc, dataPending, chunksRead >>
    /\ PtyStep

\* TerminalSession::~TerminalSession: screenUpdateThread_->join() returns
Join ==
    /\ closerPc = "joining"
    /\ loopPc = "exited"
    /\ closerPc' = "joined"
    /\ UNCHANGED << terminating, loopPc, wakeupPending, dataPending, chunksRead >>
    /\ PtyStep

InitPtyKind ==
    /\ ptyKind \in {"UnixPty", "ConPty"}
    /\ terminating = FALSE
    /\ loopPc = "check"
    /\ wakeupPending = "none"
    /\ dataPending = [chunks |-> 0, eof |-> FALSE]
    /\ chunksRead = 0
    /\ closerPc = "idle"
    /\ ptyIo = InitIo
    /\ sequencer = NoSequencer
    /\ InitApp

PtyInit ==
    /\ InitScreen(Page3x3, 0, TRUE)
    /\ InitObservers(0)
    /\ InitRender
    /\ InitPtyKind

PtyNext ==
    \/ LoopCheck \/ ReadData \/ ReadClosed \/ ReadTimeout \/ ReadWakeup
    \/ ChildOutput \/ ChildExit
    \/ SetTerminating \/ WakeupReader \/ Join

\* The threads keep running and the operating system delivers what is
\* readable; when the child writes or exits, and when a select times out, is
\* not promised.
PtyFairness ==
    /\ WF_vars(LoopCheck)
    /\ WF_vars(ReadData)
    /\ WF_vars(ReadClosed)
    /\ WF_vars(ReadWakeup)
    /\ WF_vars(WakeupReader)
    /\ WF_vars(Join)

PtySpec == PtyInit /\ [][PtyNext]_vars /\ PtyFairness

\* C3 (as claimed): once the destructor has set the flag and called
\* wakeupReader(), the input loop exits and the join returns, for the POSIX
\* PTY and for ConPTY.
C3_ReaderAlwaysUnblocked == (closerPc = "joining") ~> (closerPc = "joined")

\* C3 (amended): the same holds for the POSIX PTY; with ConPTY it holds when
\* the loop is not blocked in the read, or the read has something to return.
C3_ReaderUnblocked ==
    (/\ closerPc = "joining"
     /\ \/ ptyKind = "UnixPty"
        \/ loopPc # "read"
        \/ dataPending.chunks > 0
        \/ dataPending.eof) ~> (closerPc = "joined")

\* a POSIX reader that was woken through the pipe, and the join has returned
C3_Witness ==
    /\ ptyKind = "UnixPty"
    /\ wakeupPending = "consumed"
    /\ closerPc = "joined"

----------------------------------------------------------------------------
(* Specification of DECSC/DECRC: from any cursor state of a 3x3 page,       *)
(* DECSC, one operation, DECRC.                                             *)

\* cursor states of a page: anywhere on the page, wrapPending only in the last column
CursorStates(ps) ==
    { c \in [line : 0 .. ps.lines - 1, column : 0 .. ps.columns - 1,
             autoWrap : BOOLEAN, originMode : BOOLEAN, wrapPending : BOOLEAN,
             sgr : { DefaultSGR, [fg |-> 1, prot |-> FALSE] },
             charset : {"USASCII", "Special"}, hyperlink : {0, 1}] :
        /\ c.wrapPending => c.column = ps.columns - 1
        /\ (c.sgr.fg = 1) = (c.charset = "Special")
        /\ (c.sgr.fg = 1) = (c.hyperlink = 1) }

\* margins DECSTBM and DECSLRM can have set on a page
MarginStates(ps) ==
    { m \in [vert : [from : 0 .. ps.lines - 1, to : 0 .. ps.lines - 1],
             hori : [from : 0 .. ps.columns - 1, to : 0 .. ps.columns - 1]] :
        m.vert.from < m.vert.to /\ m.hori.from < m.hori.to }

CursorSaveInit ==
    /\ pageSize = Page3x3
    /\ reflowOnResize = TRUE
    /\ maxHistoryLineCount = 0
    /\ usingStdoutFastPipe = FALSE
    /\ cursor \in CursorStates(Page3x3)
    /\ savedCursor = DefaultCursor
    /\ margin \in MarginStates(Page3x3)
    /\ \E lrmm \in BOOLEAN, stacked \in BOOLEAN :
        /\ modes = [m \in DECModes |->
                      CASE m = "AutoWrap" -> cursor.autoWrap
                        [] m = "Origin" -> cursor.originMode
                        [] m = "LeftRightMargin" -> lrmm
                        [] OTHER -> FALSE]
        /\ savedModes = [m \in DECModes |-> IF stacked THEN << ~modes[m] >> ELSE << >>]
        /\ ~lrmm => margin.hori = FullMargin(Page3x3).hori
    /\ lines = [i \in 1 .. Page3x3.lines |-> BlankLine(Page3x3.columns, TRUE, DefaultSGR)]
    /\ history = << >>
    /\ tabs = << >>
    /\ status = "running"
    /\ InitObservers(MaxSaveSteps)
    /\ InitRender
    /\ InitPty

\* the operation between DECSC and DECRC
Between == sinceSave.n = 0

CursorSaveNext ==
    \/ sinceSave.n < 0 /\ DECSC
    \/ Between /\ CUP
    \/ Between /\ CUU
    \/ Between /\ CUD
    \/ Between /\ CUF
    \/ Between /\ CUB
    \/ Between /\ LF
    \/ Between /\ IND
    \/ Between /\ CR
    \/ Between /\ BS
    \/ Between /\ DECSTBM
    \/ Between /\ DECSLRM
    \/ Between /\ DECSM
    \/ Between /\ DECRM
    \/ Between /\ XTSAVE
    \/ Between /\ XTRESTORE
    \/ Between /\ SGR
    \/ Between /\ SCS
    \/ Between /\ OSC8
    \/ Between /\ SU
    \/ Between /\ DL
    \/ Between /\ TextChar({"A"})
    \/ Between /\ TextRun({"A"})
    \/ sinceSave.n = 1 /\ DECRC

CursorSaveSpec == CursorSaveInit /\ [][CursorSaveNext]_vars

----------------------------------------------------------------------------
(* Specification of the DEC mode stacks: from any mode register and any     *)
(* saved stacks, XTSAVE, DECSET, DECRST and XTRESTORE of one mode each.     *)

\* the stacks Modes::save can have built for one mode
SavedStacks == UNION { [1 .. n -> BOOLEAN] : n \in 0 .. MaxSavedModes }

ModeInit ==
    /\ pageSize = Page3x3
    /\ reflowOnResize = TRUE
    /\ maxHistoryLineCount = 0
    /\ usingStdoutFastPipe = FALSE
    /\ modes \in [DECModes -> BOOLEAN]
    /\ savedModes \in [DECModes -> SavedStacks]
    /\ cursor = [DefaultCursor EXCEPT !.autoWrap = modes["AutoWrap"],
                                      !.originMode = modes["Origin"]]
    /\ savedCursor = DefaultCursor
    /\ margin = FullMargin(Page3x3)
    /\ lines = [i \in 1 .. Page3x3.lines |-> BlankLine(Page3x3.columns, TRUE, DefaultSGR)]
    /\ history = << >>
    /\ tabs = << >>
    /\ status = "running"
    /\ InitObservers(MaxModeSteps)
    /\ InitRender
    /\ InitPty

\* the four operations address the same mode, one after the other
ModeNext ==
    \/ monitor.stage \in {0, 4} /\ XTSAVE
    \/ monitor.stage = 1 /\ DECSM /\ monitor'.stage = 2
    \/ monitor.stage = 2 /\ DECRM /\ monitor'.stage = 3
    \/ monitor.stage = 3 /\ XTRESTORE /\ monitor'.stage = 4

ModeSpec == ModeInit /\ [][ModeNext]_vars

\* C5: for every DEC mode m, every prior value v of m and any prior content
\* of m's save stack, save(m); set(m); reset(m); restore(m) leaves m with
\* value v.
C5_SaveSetResetRestore ==
    monitor.stage = 4 => modes[monitor.mode] = monitor.v

\* the four steps were executed for a mode that was set before, over a stack
\* that already held the opposite value
C5_Witness ==
    /\ monitor.stage = 4
    /\ monitor.v
    /\ savedModes[monitor.mode] = << FALSE >>
    /\ last.pre.modes[monitor.mode] = FALSE

----------------------------------------------------------------------------
(* Specification of scrolling: a 3x3 page with text on its first line, any  *)
(* margins, any cursor position, a history limit of 0..MaxHistoryBound and  *)
(* a history filled up to any level, driven by LF, IND, SU and DL.          *)

MarkedLine(ps, ch) ==
    [BlankLine(ps.columns, TRUE, DefaultSGR) EXCEPT
        !.cells[1] = [ch |-> ch, sgr |-> DefaultSGR, hl |-> 0], !.trivial = FALSE]

ScrollInit ==
    /\ pageSize = Page3x3
    /\ reflowOnResize = TRUE
    /\ maxHistoryLineCount \in 0 .. MaxHistoryBound
    /\ usingStdoutFastPipe = FALSE
    /\ \E line \in 0 .. Page3x3.lines - 1, column \in 0 .. Page3x3.columns - 1 :
        cursor = [DefaultCursor EXCEPT !.line = line, !.column = column]
    /\ savedCursor = DefaultCursor
    /\ margin \in MarginStates(Page3x3)
    /\ modes = [m \in DECModes |->
                  CASE m = "AutoWrap" -> TRUE
                    [] m = "LeftRightMargin" -> margin.hori # FullMargin(Page3x3).hori
                    [] OTHER -> FALSE]
    /\ savedModes = [m \in DECModes |-> << >>]
    /\ lines = [i \in 1 .. Page3x3.lines |->
                  IF i = 1 THEN MarkedLine(Page3x3, "A")
                  ELSE BlankLine(Page3x3.columns, TRUE, DefaultSGR)]
    /\ \E h \in 0 .. maxHistoryLineCount :
        history = [i \in 1 .. h |-> MarkedLine(Page3x3, "B")]
    /\ tabs = << >>
    /\ status = "running"
    /\ InitObservers(MaxScrollSteps)
    /\ InitRender
    /\ InitPty

ScrollNext == LF \/ IND \/ SU \/ DL

ScrollSpec == ScrollInit /\ [][ScrollNext]_vars

\* the vertical margin of the screen s covers the full page
FullVerticalMargin(s) == s.margin.vert = FullMargin(s.pageSize).vert

\* the last operation scrolled the margin up: SU does, LF and IND do with
\* the cursor on the bottom margin
ScrolledUp ==
    \/ last.op = "SU"
    \/ last.op \in {"LF", "IND"} /\ last.pre.cursor.line = last.pre.margin.vert.to

\* the number of lines the last operation scrolled by
ScrolledBy == IF last.op = "SU" THEN ParamOr(last.arg[1], 1) ELSE 1

\* C6 (as claimed): a scroll-up by n lines while the vertical margin covers
\* the full page leaves min(historyLineCount + n, maxHistoryLineCount)
\* lines in the history.
C6_ScrollUpFullVertical ==
    (ScrolledUp /\ FullVerticalMargin(last.pre)) =>
        Len(history) = Min(Len(last.pre.history) + ScrolledBy, maxHistoryLineCount)

\* C6 (amended): the same, for a margin that covers the full page in both
\* directions; with left/right margins narrower than the page the history
\* is left as it is.
C6_ScrollUpFullPage ==
    (ScrolledUp /\ FullVerticalMargin(last.pre)) =>
        IF last.pre.margin = FullMargin(pageSize)
        THEN Len(history) = Min(Len(last.pre.history) + ScrolledBy, maxHistoryLineCount)
        ELSE history = last.pre.history

\* SU 2 on the full page pushed the text line and a blank line onto a
\* history that already held a line, and the limit cut the oldest off
C6_Witness ==
    /\ last.op = "SU" /\ ScrolledBy = 2
    /\ last.pre.margin = FullMargin(pageSize)
    /\ Len(last.pre.history) = 1
    /\ maxHistoryLineCount = 2
    /\ Len(history) = 2
    /\ history[1].cells[1].ch = "A"

\* C7: LF, IND, SU and DL executed while the vertical margin is a proper
\* sub-range of the page leave the history unchanged.
C7_SubMarginScrollKeepsHistory ==
    (last.op \in {"LF", "IND", "SU", "DL"} /\ ~FullVerticalMargin(last.pre)) =>
        history = last.pre.history

\* DL inside a margin below the page's top moved the lines of the margin up,
\* and LF on the bottom margin scrolled the text line out of the page
C7_Witness ==
    /\ last.op \in {"LF", "DL"}
    /\ ~FullVerticalMargin(last.pre)
    /\ maxHistoryLineCount > 0
    /\ \/ last.op = "LF" /\ last.pre.cursor.line = last.pre.margin.vert.to
       \/ last.op = "DL" /\ last.pre.cursor.line = 0
    /\ last.pre.lines[1].cells[1].ch = "A"
    /\ lines[1].cells[1].ch = " "
    /\ history = last.pre.history

----------------------------------------------------------------------------
(* Specification of text entry: a blank 3x3 page with any margins, cursor   *)
(* position and autowrap setting, with wrappable lines or not, driven by    *)
(* printable characters.                                                    *)

TextInit ==
    /\ pageSize = Page3x3
    /\ reflowOnResize \in BOOLEAN
    /\ maxHistoryLineCount = 0
    /\ usingStdoutFastPipe = FALSE
    /\ \E line \in 0 .. Page3x3.lines - 1, column \in 0 .. Page3x3.columns - 1, aw \in BOOLEAN :
        cursor = [DefaultCursor EXCEPT !.line = line, !.column = column, !.autoWrap = aw]
    /\ savedCursor = DefaultCursor
    /\ margin \in MarginStates(Page3x3)
    /\ \E lrmm \in BOOLEAN :
        /\ margin.hori # FullMargin(Page3x3).hori => lrmm
        /\ modes = [m \in DECModes |->
                      CASE m = "AutoWrap" -> cursor.autoWrap
                        [] m = "LeftRightMargin" -> lrmm
                        [] OTHER -> FALSE]
    /\ savedModes = [m \in DECModes |-> << >>]
    /\ lines = [i \in 1 .. Page3x3.lines |->
                  BlankLine(Page3x3.columns, reflowOnResize, DefaultSGR)]
    /\ history = << >>
    /\ tabs = << >>
    /\ status = "running"
    /\ InitObservers(MaxTextSteps)
    /\ InitRender
    /\ InitPty

TextNext == TextChar({"A", "B"}) \/ TextRun({"A", "B"})

TextSpec == TextInit /\ [][TextNext]_vars

\* the column of the right margin for the cursor of s
RightMarginColumn(s) ==
    IF s.modes["LeftRightMargin"] /\ isCursorInsideMargins(s)
    THEN s.margin.hori.to
    ELSE s.pageSize.columns - 1

\* the last operation printed one character with autowrap on, the cursor on the page
PrintedOne == last.op = "Text" /\ Len(last.arg[1]) = 1 /\ last.pre.cursor.autoWrap

\* ... into the column at the right margin, no wrap pending
PrintedAtRightMargin ==
    /\ PrintedOne
    /\ ~last.pre.cursor.wrapPending
    /\ last.pre.cursor.column = RightMarginColumn(last.pre)

\* ... with a wrap pending
PrintedWithWrapPending == PrintedOne /\ last.pre.cursor.wrapPending

\* the character stays where it was printed, the cursor on it, with wrapPending set
StaysWithWrapPending ==
    /\ cursor.line = last.pre.cursor.line
    /\ cursor.column = last.pre.cursor.column
    /\ cursor.wrapPending
    /\ lines[cursor.line + 1].cells[cursor.column + 1].ch = last.arg[1][1]

\* the wrap scrolled: the cursor was on the bottom margin
WrapScrolled == last.pre.cursor.line = last.pre.margin.vert.to

\* the wrap has no following line: the cursor was on the last line of the
\* page, below the bottom margin
WrapOffPage == ~WrapScrolled /\ last.pre.cursor.line = pageSize.lines - 1

\* the character is at the left margin of the line the CR+LF led to
WrittenOnFollowingLine ==
    /\ status = "running"
    /\ cursor.line = IF WrapScrolled THEN last.pre.cursor.line ELSE last.pre.cursor.line + 1
    /\ lines[cursor.line + 1].cells[last.pre.margin.hori.from + 1].ch = last.arg[1][1]

FilledLineWasWrappable == last.pre.lines[last.pre.cursor.line + 1].wrappable

\* C8 (as claimed): with autowrap on, a character printed into the column at
\* the right margin leaves the cursor there with wrapPending set; the next
\* character is written at the start of the following line after CR+LF, and
\* the line that was filled is marked Wrapped if it was Wrappable.
C8_WrapMarksFilledLine ==
    /\ PrintedAtRightMargin => StaysWithWrapPending
    /\ PrintedWithWrapPending =>
        /\ WrittenOnFollowingLine
        /\ (~WrapScrolled /\ FilledLineWasWrappable) =>
               lines[last.pre.cursor.line + 1].wrapped

\* C8 (amended): as above, but it is the following line, the one the
\* character is written to, that is marked Wrapped (and Wrappable) if the
\* filled line was Wrappable; the filled line keeps its flags.  On the last
\* line of the page below the bottom margin there is no following line: the
\* linefeed takes the cursor off the page and the write is outside the grid.
C8_WrapMarksFollowingLine ==
    /\ PrintedAtRightMargin => StaysWithWrapPending
    /\ PrintedWithWrapPending =>
        IF WrapOffPage
        THEN status = "fault" /\ cursor.line = pageSize.lines
        ELSE /\ WrittenOnFollowingLine
             /\ FilledLineWasWrappable =>
                    lines[cursor.line + 1].wrapped /\ lines[cursor.line + 1].wrappable
             /\ ~WrapScrolled =>
                    /\ lines[last.pre.cursor.line + 1].wrapped =
                           last.pre.lines[last.pre.cursor.line + 1].wrapped
                    /\ lines[last.pre.cursor.line + 1].wrappable = FilledLineWasWrappable

\* a character was printed at the right margin, and the next one went to the
\* following line, which got the Wrapped flag while the filled line did not
C8_Witness ==
    /\ PrintedWithWrapPending
    /\ ~WrapScrolled /\ ~WrapOffPage
    /\ FilledLineWasWrappable
    /\ last.pre.lines[last.pre.cursor.line + 1].cells[last.pre.cursor.column + 1].ch = "A"
    /\ cursor.line = last.pre.cursor.line + 1
    /\ lines[cursor.line + 1].cells[1].ch = "B"
    /\ lines[cursor.line + 1].wrapped
    /\ ~lines[last.pre.cursor.line + 1].wrapped

----------------------------------------------------------------------------
(* Specification of the autowrap scenario: a fresh 3x3 page with the        *)
(* defaults of Settings (autowrap on, lines wrappable), fed printable text   *)
(* over the letters of 'ABCD' in any chunking, one operation per letter at  *)
(* most.                                                                    *)

ABCD == << "A", "B", "C", "D" >>

WrapScenarioInit ==
    /\ InitScreen(Page3x3, 0, TRUE)
    /\ last = NoLast
    /\ sinceSave = NoSave
    /\ monitor = NoMonitor
    /\ input = [on |-> TRUE, seq |-> << >>]
    /\ steps = Len(ABCD)
    /\ InitRender
    /\ InitPty

WrapScenarioNext == TextChar({"A", "B", "C", "D"}) \/ TextRun({"A", "B", "C", "D"})

WrapScenarioSpec == WrapScenarioInit /\ [][WrapScenarioNext]_vars

\* the characters of page line i (0-based)
LineText(i) == [c \in 1 .. pageSize.columns |-> lines[i + 1].cells[c].ch]

\* C9: on a 3x3 page with autowrap on and the cursor at home, the input
\* 'ABCD' leaves "ABC" on line 0, 'D' at the start of line 1, which carries
\* the Wrapped flag, and the cursor at line 1, column 1.
C9_ABCDWraps ==
    input.seq = ABCD =>
        /\ status = "running"
        /\ LineText(0) = << "A", "B", "C" >>
        /\ LineText(1)[1] = "D"
        /\ lines[2].wrapped
        /\ cursor.line = 1
        /\ cursor.column = 1

\* 'ABCD' has been written, the 'D' arriving with a wrap pending at the end of line 0
C9_Witness ==
    /\ input.seq = ABCD
    /\ last.op = "Text"
    /\ last.pre.cursor.wrapPending
    /\ last.pre.cursor.line = 0
    /\ last.pre.cursor.column = 2
    /\ cursor.line = 1
    /\ lines[2].wrapped

----------------------------------------------------------------------------
(* Specification of the history scenario: a fresh 2x2 page with a history   *)
(* of at most 10 lines, fed the digits of '1', LF, '2', LF, '3', LF and LF  *)
(* in any order and chunking, up to the length of that input, with LF       *)
(* keeping the column or acting as CR LF.                                   *)

Page2x2 == [lines |-> 2, columns |-> 2]

OneLfTwoLfThreeLf == << "1", "LF", "2", "LF", "3", "LF" >>

HistoryScenarioInit ==
    /\ pageSize = Page2x2
    /\ reflowOnResize = TRUE
    /\ maxHistoryLineCount = 10
    /\ usingStdoutFastPipe \in BOOLEAN
    /\ cursor = DefaultCursor
    /\ savedCursor = DefaultCursor
    /\ margin = FullMargin(Page2x2)
    /\ modes = [m \in DECModes |-> m = "AutoWrap"]
    /\ savedModes = [m \in DECModes |-> << >>]
    /\ lines = [i \in 1 .. Page2x2.lines |-> BlankLine(Page2x2.columns, TRUE, DefaultSGR)]
    /\ history = << >>
    /\ tabs = << >>
    /\ status = "running"
    /\ last = NoLast
    /\ sinceSave = NoSave
    /\ monitor = NoMonitor
    /\ input = [on |-> TRUE, seq |-> << >>]
    /\ steps = Len(OneLfTwoLfThreeLf)
    /\ InitRender
    /\ InitPty

InputFits == Len(input.seq) < Len(OneLfTwoLfThreeLf)

HistoryScenarioNext ==
    \/ InputFits /\ TextChar({"1", "2", "3"})
    \/ InputFits /\ TextRun({"1", "2", "3"})
    \/ InputFits /\ LF

HistoryScenarioSpec == HistoryScenarioInit /\ [][HistoryScenarioNext]_vars

\* the characters of a line
RowText(l) == [c \in 1 .. pageSize.columns |-> l.cells[c].ch]

\* the characters of the page lines, and of the history lines (oldest first)
VisibleText == [i \in 1 .. pageSize.lines |-> RowText(lines[i])]
HistoryText == [i \in 1 .. Len(history) |-> RowText(history[i])]

\* C10 (as claimed): on a 2x2 page with maximum history 10 and the cursor at
\* home, the input '1', LF, '2', LF, '3', LF leaves "2" and "3" on the page,
\* "1" in the history and the cursor at line 1, column 0.
C10_TwoThreeVisible ==
    input.seq = OneLfTwoLfThreeLf =>
        /\ VisibleText = << << "2", " " >>, << "3", " " >> >>
        /\ HistoryText = << << "1", " " >> >>
        /\ cursor.line = 1
        /\ cursor.column = 0

\* C10 (amended): the second and the third LF both find the cursor on the
\* last line and scroll, so the input '1', LF, '2', LF, '3', LF leaves the
\* lines of '1' and '2' in the history, the line of '3' on page line 0, a
\* blank page line 1 and the cursor on line 1.  LF keeps the column: '2' and
\* '3' are in column 1 and the cursor ends in column 1; where LF acts as
\* CR LF they are in column 0 and the cursor ends in column 0.
C10_ThreeVisibleTwoInHistory ==
    input.seq = OneLfTwoLfThreeLf =>
        /\ status = "running"
        /\ cursor.line = 1
        /\ ~cursor.wrapPending
        /\ IF usingStdoutFastPipe
           THEN /\ HistoryText = << << "1", " " >>, << "2", " " >> >>
                /\ VisibleText = << << "3", " " >>, << " ", " " >> >>
                /\ cursor.column = 0
           ELSE /\ HistoryText = << << "1", " " >>, << " ", "2" >> >>
                /\ VisibleText = << << " ", "3" >>, << " ", " " >> >>
                /\ cursor.column = 1

\* the whole input has been fed, the last LF scrolling the line of '2' into the history
C10_Witness ==
    /\ input.seq = OneLfTwoLfThreeLf
    /\ last.op = "LF"
    /\ last.pre.cursor.line = 1
    /\ Len(last.pre.history) = 1
    /\ Len(history) = 2
    /\ ~usingStdoutFastPipe

----------------------------------------------------------------------------
(* Page resize.  Grid::resize is modelled without reflow: lines are cut or  *)
(* padded on the right, and the window of the page over history and lines   *)
(* moves by `shift` lines (down into the old page when lines are pushed to  *)
(* the history, up into the history when lines are pulled back).            *)

ResizeColumns(ln, columns) ==
    [ln EXCEPT !.cells = [c \in 1 .. columns |->
                            IF c <= Len(ln.cells) THEN ln.cells[c] ELSE BlankCell(DefaultSGR)]]

\* the shifts Grid::resize can apply when the page of s becomes ps
ResizeShifts(s, ps) ==
    { k \in -Len(s.history) .. s.pageSize.lines :
        /\ k > 0 => k <= s.pageSize.lines - ps.lines
        /\ k < 0 => -k <= ps.lines - s.pageSize.lines }

\* Grid::resize(newSize, cursorPosition, wrapPending)
GridResize(s, ps, shift) ==
    LET all == [i \in 1 .. Len(s.history) + Len(s.lines) |->
                   ResizeColumns((s.history \o s.lines)[i], ps.columns)]
        top == Len(s.history) + shift
        kept == SubSeq(all, 1, top)
        over == Len(kept) - maxHistoryLineCount
    IN [s EXCEPT !.pageSize = ps,
                 !.lines = [i \in 1 .. ps.lines |->
                              IF top + i <= Len(all) THEN all[top + i]
                              ELSE BlankLine(ps.columns, defaultLineFlags, DefaultSGR)],
                 !.history = IF over > 0 THEN SubSeq(kept, over + 1, Len(kept)) ELSE kept,
                 !.cursor.line = @ - shift]

\* an applyPageSizeToMainDisplay that leaves the margins as they were
applyPageSizeKeepingMargins(s, mainDisplayPageSize, shift) ==
    LET s1 == GridResize(s, mainDisplayPageSize, shift)
        cursorPosition == clampCoordinate(s1, s1.cursor.line, s1.cursor.column)
        s2 == IF s.cursor.column < mainDisplayPageSize.columns
              THEN [s1 EXCEPT !.cursor.wrapPending = FALSE]
              ELSE s1
    IN verifyState([s2 EXCEPT !.cursor.line = cursorPosition.line,
                              !.cursor.column = cursorPosition.column])

\* Screen::applyPageSizeToMainDisplay
applyPageSizeToMainDisplay(s, mainDisplayPageSize, shift) ==
    LET s1 == GridResize(s, mainDisplayPageSize, shift)
        cursorPosition == clampCoordinate(s1, s1.cursor.line, s1.cursor.column)
        s2 == [s1 EXCEPT !.margin = FullMargin(mainDisplayPageSize)]
        s3 == IF s.cursor.column < mainDisplayPageSize.columns
              THEN [s2 EXCEPT !.cursor.wrapPending = FALSE]
              ELSE s2
    IN verifyState([s3 EXCEPT !.cursor.line = cursorPosition.line,
                              !.cursor.column = cursorPosition.column])

\* Terminal::resizeScreen: the requested size is clamped to 1x1 at least
resizeScreen(s, cells, shift) ==
    applyPageSizeToMainDisplay(s, [lines |-> Max(1, cells.lines),
                                   columns |-> Max(1, cells.columns)], shift)

ClampedSize(l, c) == [lines |-> Max(1, l), columns |-> Max(1, c)]

Resize == \E l \in 0 .. Page3x3.lines, c \in 0 .. Page3x3.columns :
    \E shift \in ResizeShifts(Cur, ClampedSize(l, c)) :
        Step("Resize", << l, c, shift >>, resizeScreen(Cur, [lines |-> l, columns |-> c], shift))

----------------------------------------------------------------------------
(* Specification of the margins: a 3x3 page with any margins, driven by the *)
(* margin sequences, the modes, linefeeds and page resizes.                 *)

MaxMarginSteps == 2    \* operations per run of the margin specification

MarginInit ==
    /\ pageSize = Page3x3
    /\ reflowOnResize = FALSE
    /\ maxHistoryLineCount = 1
    /\ usingStdoutFastPipe = FALSE
    /\ cursor = DefaultCursor
    /\ savedCursor = DefaultCursor
    /\ margin \in MarginStates(Page3x3) \cup { FullMargin(Page3x3) }
    /\ \E lrmm \in BOOLEAN :
        /\ margin.hori # FullMargin(Page3x3).hori => lrmm
        /\ modes = [m \in DECModes |-> IF m = "LeftRightMargin" THEN lrmm ELSE m = "AutoWrap"]
    /\ savedModes = [m \in DECModes |-> << >>]
    /\ lines = [i \in 1 .. Page3x3.lines |-> BlankLine(Page3x3.columns, FALSE, DefaultSGR)]
    /\ history = << >>
    /\ tabs = << >>
    /\ status = "running"
    /\ InitObservers(MaxMarginSteps)
    /\ InitRender
    /\ InitPty

MarginNext == DECSTBM \/ DECSLRM \/ DECSM \/ DECRM \/ LF \/ Resize

MarginSpec == MarginInit /\ [][MarginNext]_vars

\* C11: in every reachable state the margins are inclusive ranges inside
\* the page, top <= bottom and left <= right, whatever the parameters of
\* DECSTBM and DECSLRM and whatever the page is resized to.
C11_MarginsInsidePage ==
    /\ 0 <= margin.vert.from /\ margin.vert.from <= margin.vert.to
    /\ margin.vert.to <= pageSize.lines - 1
    /\ 0 <= margin.hori.from /\ margin.hori.from <= margin.hori.to
    /\ margin.hori.to <= pageSize.columns - 1

\* a DECSTBM with a reversed, out-of-range pair of parameters on a page that
\* was made smaller
C11_Witness ==
    /\ last.op = "DECSTBM"
    /\ last.arg[1] > last.arg[2]
    /\ last.arg[1] > pageSize.lines
    /\ last.arg[2] > 0
    /\ pageSize.lines < Page3x3.lines

----------------------------------------------------------------------------
(* Relative cursor motion and the margins, over the cursor-motion           *)
(* specification Spec.                                                      *)

InsideVerticalMargin(s) ==
    s.margin.vert.from <= s.cursor.line /\ s.cursor.line <= s.margin.vert.to

InsideHorizontalMargin(s) ==
    s.margin.hori.from <= s.cursor.column /\ s.cursor.column <= s.margin.hori.to

\* C12: CUU and CUD started inside the vertical margins leave the cursor
\* between the top and the bottom margin, and with DECLRMM set CUF and CUB
\* started inside the horizontal margins leave it between the left and the
\* right margin, for any count.
C12_MotionsRespectMargins ==
    /\ (last.op \in {"CUU", "CUD"} /\ InsideVerticalMargin(last.pre)) =>
           /\ last.pre.margin.vert.from <= cursor.line
           /\ cursor.line <= last.pre.margin.vert.to
    /\ (last.op \in {"CUF", "CUB"} /\ last.pre.modes["LeftRightMargin"]
            /\ InsideHorizontalMargin(last.pre)) =>
           /\ last.pre.margin.hori.from <= cursor.column
           /\ cursor.column <= last.pre.margin.hori.to

----------------------------------------------------------------------------
(* Absolute column and line addressing *)

\* Screen::moveCursorToColumn
moveCursorToColumn(s, column) == setCurrentColumn(s, column)

\* Screen::moveCursorToLine
moveCursorToLine(s, n) == moveCursorTo(s, n, s.cursor.column)

CHA == \E c \in Params :
    Step("CHA", << c >>, applyAndLog(moveCursorToColumn(Cur, ParamOr(c, 1) - 1)))
\* HPA reads its parameter without a default; it is drawn from 1 .. MaxParam
HPA == \E c \in Params \ {0} :
    Step("HPA", << c >>, applyAndLog(moveCursorToColumn(Cur, c - 1)))
VPA == \E l \in Params :
    Step("VPA", << l >>, applyAndLog(moveCursorToLine(Cur, ParamOr(l, 1) - 1)))

----------------------------------------------------------------------------
(* Specification of absolute addressing: a 3x3 page with any margins and    *)
(* cursor position, origin mode set or not, driven by CUP, CHA, HPA, VPA.   *)

MaxOriginSteps == 2    \* operations per run of the addressing specification

OriginInit ==
    /\ pageSize = Page3x3
    /\ reflowOnResize = TRUE
    /\ maxHistoryLineCount = 0
    /\ usingStdoutFastPipe = FALSE
    /\ \E line \in 0 .. Page3x3.lines - 1, column \in 0 .. Page3x3.columns - 1, om \in BOOLEAN :
        cursor = [DefaultCursor EXCEPT !.line = line, !.column = column, !.originMode = om]
    /\ savedCursor = DefaultCursor
    /\ margin \in MarginStates(Page3x3) \cup { FullMargin(Page3x3) }
    /\ \E lrmm \in BOOLEAN :
        /\ margin.hori # FullMargin(Page3x3).hori => lrmm
        /\ modes = [m \in DECModes |->
                      CASE m = "AutoWrap" -> TRUE
                        [] m = "Origin" -> cursor.originMode
                        [] m = "LeftRightMargin" -> lrmm
                        [] OTHER -> FALSE]
    /\ savedModes = [m \in DECModes |-> << >>]
    /\ lines = [i \in 1 .. Page3x3.lines |-> BlankLine(Page3x3.columns, TRUE, DefaultSGR)]
    /\ history = << >>
    /\ tabs = << >>
    /\ status = "running"
    /\ InitObservers(MaxOriginSteps)
    /\ InitRender
    /\ InitPty

OriginNext == CUP \/ CHA \/ HPA \/ VPA

OriginSpec == OriginInit /\ [][OriginNext]_vars

\* the line and the column that parameter p addresses under origin mode
OriginLine(s, p) == s.margin.vert.from + ParamOr(p, 1) - 1
OriginColumn(s, p) == s.margin.hori.from + ParamOr(p, 1) - 1

\* C13: with origin mode set, CUP r;c places the cursor at (top + r - 1,
\* left + c - 1), CHA and HPA c place it in column left + c - 1 of its
\* line, and VPA r places it on line top + r - 1 of its column, wherever
\* the addressed position is on the page.
C13_OriginRelativeAddressing ==
    (last.op \in {"CUP", "CHA", "HPA", "VPA"} /\ last.pre.cursor.originMode) =>
        LET pre == last.pre
            l == IF last.op \in {"CUP", "VPA"} THEN OriginLine(pre, last.arg[1])
                 ELSE pre.cursor.line
            c == CASE last.op = "CUP" -> OriginColumn(pre, last.arg[2])
                   [] last.op \in {"CHA", "HPA"} -> OriginColumn(pre, last.arg[1])
                   [] OTHER -> pre.cursor.column
        IN (l < pageSize.lines /\ c < pageSize.columns) =>
               cursor.line = l /\ cursor.column = c

----------------------------------------------------------------------------
(* Screen: protected characters and selective erase.  The flag               *)
(* CharacterProtected of a cell is the field prot of its rendition.         *)

\* Screen::apply, DECSCA
setCharacterProtection(s, Pc) ==
    CASE Pc = 1 -> [s EXCEPT !.cursor.sgr.prot = TRUE]
      [] Pc \in {0, 2} -> [s EXCEPT !.cursor.sgr.prot = FALSE]
      [] OTHER -> s

\* Screen::containsProtectedCharacters over the columns begin .. end - 1 of a line
containsProtectedCharacters(s, line, begin, end) ==
    \E c \in begin + 1 .. end : s.lines[line + 1].cells[c].sgr.prot

\* Screen::selectiveErase over the columns begin .. end - 1 of a line
selectiveErase(s, line, begin, end) ==
    [s EXCEPT !.lines[line + 1].trivial = FALSE,
              !.lines[line + 1].cells =
                  [c \in DOMAIN @ |->
                      IF begin < c /\ c <= end /\ ~@[c].sgr.prot
                      THEN BlankCell(s.cursor.sgr)
                      ELSE @[c]]]

\* Screen::selectiveEraseLine: without protected characters on `line`, the
\* line that is reset is currentLine(), the line of the cursor
selectiveEraseLine(s, line) ==
    IF containsProtectedCharacters(s, line, 0, s.pageSize.columns)
    THEN selectiveErase(s, line, 0, s.pageSize.columns)
    ELSE [s EXCEPT !.lines[s.cursor.line + 1] =
              BlankLine(s.pageSize.columns, defaultLineFlags, s.cursor.sgr)]

\* Screen::selectiveEraseToEndOfLine
selectiveEraseToEndOfLine(s) ==
    IF isFullHorizontalMargins(s) /\ s.cursor.column = 0
    THEN selectiveEraseLine(s, s.cursor.line)
    ELSE selectiveErase(s, s.cursor.line, s.cursor.column, s.pageSize.columns)

\* Screen::selectiveEraseToBeginOfLine
selectiveEraseToBeginOfLine(s) ==
    IF isFullHorizontalMargins(s) /\ s.cursor.column = s.pageSize.columns
    THEN selectiveEraseLine(s, s.cursor.line)
    ELSE selectiveErase(s, s.cursor.line, 0, s.cursor.column + 1)

\* selectiveEraseLine over the lines from .. to - 1, in order
RECURSIVE selectiveEraseLines(_, _, _)
selectiveEraseLines(s, from, to) ==
    IF from >= to THEN s ELSE selectiveEraseLines(selectiveEraseLine(s, from), from + 1, to)

\* Screen::selectiveEraseToEndOfScreen
selectiveEraseToEndOfScreen(s) ==
    selectiveEraseLines(selectiveEraseToEndOfLine(s), s.cursor.line + 1, s.pageSize.lines)

\* Screen::selectiveEraseToBeginOfScreen
selectiveEraseToBeginOfScreen(s) ==
    selectiveEraseLines(selectiveEraseToBeginOfLine(s), 0, s.cursor.line)

\* Screen::selectiveEraseScreen
selectiveEraseScreen(s) == selectiveEraseLines(s, 0, s.pageSize.lines)

\* Screen::selectiveEraseArea on the rectangle top, left, bottom, right
\* (0-based, inclusive), made relative to the margins under origin mode and
\* clamped to the page
selectiveEraseArea(s, top, left, bottom, right) ==
    LET ot == IF s.cursor.originMode THEN s.margin.vert.from ELSE 0
        ol == IF s.cursor.originMode THEN s.margin.hori.from ELSE 0
        t == Clamp(top + ot, 0, s.pageSize.lines - 1)
        b == Clamp(bottom + ot, 0, s.pageSize.lines - 1)
        l == Clamp(left + ol, 0, s.pageSize.columns - 1)
        r == Clamp(right + ol, 0, s.pageSize.columns - 1)
    IN IF t > b \/ l > r THEN s
       ELSE [s EXCEPT !.lines =
                [y \in DOMAIN @ |->
                    IF t < y /\ y <= b + 1
                    THEN [@[y] EXCEPT !.trivial = FALSE,
                                      !.cells = [c \in DOMAIN @ |->
                                          IF l < c /\ c <= r + 1 /\ ~@[c].sgr.prot
                                          THEN [@[c] EXCEPT !.ch = " ", !.hl = 0]
                                          ELSE @[c]]]
                    ELSE @[y]]]

DECSCA == \E Pc \in Params :
    Step("DECSCA", << Pc >>, applyAndLog(setCharacterProtection(Cur, Pc)))
DECSEL == \E p \in Params :
    Step("DECSEL", << p >>,
         OnPageOrFault(Cur, applyAndLog(
             CASE p = 0 -> selectiveEraseToEndOfLine(Cur)
               [] p = 1 -> selectiveEraseToBeginOfLine(Cur)
               [] p = 2 -> selectiveEraseLine(Cur, cursor.line)
               [] OTHER -> Cur)))
DECSED == \E p \in Params :
    Step("DECSED", << p >>,
         OnPageOrFault(Cur, applyAndLog(
             CASE p = 0 -> selectiveEraseToEndOfScreen(Cur)
               [] p = 1 -> selectiveEraseToBeginOfScreen(Cur)
               [] p = 2 -> selectiveEraseScreen(Cur)
               [] OTHER -> Cur)))
DECSERA == \E t, l, b, r \in Params :
    Step("DECSERA", << t, l, b, r >>,
         applyAndLog(selectiveEraseArea(Cur, ParamOr(t, 1) - 1, ParamOr(l, 1) - 1,
                                        ParamOr(b, pageSize.lines) - 1,
                                        ParamOr(r, pageSize.columns) - 1)))

----------------------------------------------------------------------------
(* Specification of selective erase: a 2x2 page whose cells are blank, an   *)
(* unprotected 'B' or a protected 'A', with the cursor anywhere and         *)
(* DECSCA 1 in effect or not.                                               *)

MaxEraseSteps == 1     \* operations per run of the selective-erase specification

EraseCells ==
    { BlankCell(DefaultSGR),
      [ch |-> "B", sgr |-> DefaultSGR, hl |-> 0],
      [ch |-> "A", sgr |-> [fg |-> 0, prot |-> TRUE], hl |-> 0] }

EraseInit ==
    /\ pageSize = Page2x2
    /\ reflowOnResize = TRUE
    /\ maxHistoryLineCount = 0
    /\ usingStdoutFastPipe = FALSE
    /\ \E line \in 0 .. Page2x2.lines - 1, column \in 0 .. Page2x2.columns - 1, prot \in BOOLEAN :
        cursor = [DefaultCursor EXCEPT !.line = line, !.column = column, !.sgr.prot = prot]
    /\ savedCursor = DefaultCursor
    /\ margin = FullMargin(Page2x2)
    /\ modes = [m \in DECModes |-> m = "AutoWrap"]
    /\ savedModes = [m \in DECModes |-> << >>]
    /\ \E content \in [1 .. Page2x2.lines -> [1 .. Page2x2.columns -> EraseCells]] :
        lines = [i \in 1 .. Page2x2.lines |->
                    [cells |-> content[i], wrappable |-> TRUE, wrapped |-> FALSE,
                     trivial |-> \A c \in 1 .. Page2x2.columns : content[i][c].ch = " "]]
    /\ history = << >>
    /\ tabs = << >>
    /\ status = "running"
    /\ InitObservers(MaxEraseSteps)
    /\ InitRender
    /\ InitPty

EraseNext == DECSCA \/ TextChar({"A"}) \/ DECSEL \/ DECSED \/ DECSERA

EraseSpec == EraseInit /\ [][EraseNext]_vars

\* C14: no selective erase (DECSEL, DECSED, DECSERA, any variant, any cursor
\* position) changes the content of a cell that carries CharacterProtected.
C14_ProtectedCellsSurvive ==
    last.op \in {"DECSEL", "DECSED", "DECSERA"} =>
        \A y \in 1 .. pageSize.lines, c \in 1 .. pageSize.columns :
            last.pre.lines[y].cells[c].sgr.prot =>
                lines[y].cells[c].ch = last.pre.lines[y].cells[c].ch

----------------------------------------------------------------------------
(* Who swaps the render buffers, over RenderSpec.                           *)

\* the thread that runs Terminal::refreshRenderBuffer and with it swapBuffers
SwapThread == IF passiveUpdate THEN "terminal" ELSE "render"

IndexChanges == currentBackBufferIndex' # currentBackBufferIndex

----------------------------------------------------------------------------
(* The IO thread and the terminal mutex.  Terminal::processInputOnce locks  *)
(* the terminal mutex around the parser; Terminal::refreshRenderBuffer      *)
(* locks it while it rebuilds the back buffer.                              *)

RenderLockStep ==
    UNCHANGED << screenVars, observerVars, ptyVars, ioVars, seqVars, appVars, passiveUpdate,
                 currentBackBufferIndex,
                 rbState, readerLock, buffers, producerPc, rendererPc, rendererRef,
                 rendererSeen, frames >>

TerminalMutexHeldByRefresh == producerPc = "cells"

\* Terminal::processInputOnce: bytes were read, the parser is about to lock
\* (under passive update this thread is not in the middle of a refresh)
ParserWant ==
    /\ parserPc = "idle"
    /\ passiveUpdate => producerPc = "idle"
    /\ parserPc' = "waiting"
    /\ RenderLockStep

\* Terminal::processInputOnce: lock the terminal mutex
ParserLock ==
    /\ parserPc = "waiting"
    /\ ~TerminalMutexHeldByRefresh
    /\ parserPc' = "parsing"
    /\ RenderLockStep

\* Terminal::processInputOnce: the bytes are parsed, unlock
ParserUnlock ==
    /\ parserPc = "parsing"
    /\ parserPc' = "idle"
    /\ RenderLockStep

RenderLockNext ==
    \/ RefreshBegin \/ RefreshCells \/ RefreshRetrySwap \/ SwapTryLock \/ SwapFlip
    \/ FrontBufferSelect \/ RenderBufferRefLock \/ RenderReadCursor \/ RenderReadCells
    \/ RenderBufferRefUnlock \/ ParserWant \/ ParserLock \/ ParserUnlock

RenderLockSpec == RenderInit /\ [][RenderLockNext]_vars

RenderThreadHoldsTerminalMutex == SwapThread = "render" /\ TerminalMutexHeldByRefresh

\* the parser cannot take the terminal mutex
ParserBlocked == parserPc = "waiting" /\ TerminalMutexHeldByRefresh

\* C16 (as claimed): while it consumes a frame the renderer holds the render
\* buffer's lock only, not the terminal mutex, and the parser thread never
\* waits for a lock held by the render thread.
C16_RendererNeverBlocksParser ==
    /\ RendererHoldsRef => ~RenderThreadHoldsTerminalMutex
    /\ ~(ParserBlocked /\ SwapThread = "render")

\* C16 (amended): while it holds its reference to the front buffer the render
\* thread holds the render buffer's lock only, not the terminal mutex.
\* Under passive render-buffer update the parser never waits for a lock of
\* the render thread; otherwise the render thread takes the terminal mutex
\* in refreshRenderBuffer at the start of each frame, before it takes the
\* front buffer, and the parser waits while the back buffer is rebuilt.
C16_RendererLocksOnlyInRefresh ==
    /\ RendererHoldsRef => ~RenderThreadHoldsTerminalMutex
    /\ ParserBlocked => SwapThread = "render" /\ rendererPc = "idle"

\* the parser waits for the terminal mutex while the render thread rebuilds the back buffer
C16_Witness == ParserBlocked /\ RenderThreadHoldsTerminalMutex /\ rendererPc = "idle"


(***************************************************************************)
(* UnixPty::read and UnixPty::write at the level of the descriptors.      *)
(* The read selector multiplexes the master, the reader of the stdout     *)
(* fast pipe and the wakeup pipe; ::read and ::write are system calls     *)
(* whose results are inputs of the model.                                  *)
(***************************************************************************)

MaxWriteSize == 2

Descriptors == {"master", "fastPipe", "wakeup"}
Errnos == {"EAGAIN", "EINTR", "EIO"}
NoFd == "none"

\* detail::setFileBlocking(_masterFd, blocking)
setFileBlocking(io, blocking) ==
    IF io.masterFd = "open" THEN [io EXCEPT !.blocking = blocking] ELSE io

\* waitForReadable: which descriptor the wait hands to the reader, `ready` being
\* the descriptors select() reports within the timeout (none: the timeout elapsed).
\* The wakeup pipe is drained and yields no descriptor; data takes precedence.
waitForReadable(io, ready) ==
    IF io.masterFd = "closed" THEN [fd |-> NoFd, errno |-> "ENODEV"]
    ELSE IF ready = {} THEN [fd |-> NoFd, errno |-> "EAGAIN"]
    ELSE IF "fastPipe" \in ready THEN [fd |-> "fastPipe", errno |-> "-"]
    ELSE IF "master" \in ready THEN [fd |-> "master", errno |-> "-"]
    ELSE [fd |-> NoFd, errno |-> "EINTR"]

\* UnixPty::readSome with the fast pipe's end-of-file answered by an empty view
readSomeEmptyViewAtEof(io, fd, rv, err) ==
    IF rv < 0
    THEN [io |-> io, value |-> "None", bytes |-> 0, errno |-> err]
    ELSE [io |-> io, value |-> "Some", bytes |-> rv, errno |-> "-"]

\* UnixPty::readSome reporting every failed ::read as EAGAIN
readSomeReportsAgain(io, fd, rv, err) ==
    IF rv < 0
    THEN [io |-> io, value |-> "None", bytes |-> 0, errno |-> "EAGAIN"]
    ELSE IF rv = 0 /\ fd = "fastPipe"
    THEN [io |-> [io EXCEPT !.fastPipe = "closed"], value |-> "None", bytes |-> 0,
          errno |-> "EAGAIN"]
    ELSE [io |-> io, value |-> "Some", bytes |-> rv, errno |-> "-"]

\* UnixPty::readSome: rv and err are the result of ::read(fd, ...) and its errno
readSome(io, fd, rv, err) ==
    IF rv < 0
    THEN [io |-> io, value |-> "None", bytes |-> 0, errno |-> err]
    ELSE IF rv = 0 /\ fd = "fastPipe"
    THEN [io |-> [io EXCEPT !.fastPipe = "closed"], value |-> "None", bytes |-> 0,
          errno |-> "EAGAIN"]
    ELSE [io |-> io, value |-> "Some", bytes |-> rv, errno |-> "-"]

\* UnixPty::read: wait for a descriptor, then read from it; the result is
\* None or Some((bytes, fromFastPipe))
UnixPtyRead(io, ready, rv, err) ==
    LET w == waitForReadable(io, ready) IN
    IF w.fd = NoFd
    THEN [io |-> io, fd |-> NoFd, value |-> "None", bytes |-> 0, errno |-> w.errno,
          fromFastPipe |-> FALSE]
    ELSE LET x == readSome(io, w.fd, rv, err) IN
         [io |-> x.io, fd |-> w.fd, value |-> x.value, bytes |-> x.bytes, errno |-> x.errno,
          fromFastPipe |-> (x.value = "Some" /\ w.fd = "fastPipe")]

\* UnixPty::close: detail::saveClose(&_masterFd) closes the master and sets it to -1
UnixPtyClose(io) == [io EXCEPT !.masterFd = "closed"]

\* Terminal::processInputOnce on the result r of Pty::read: a failure other than
\* EINTR and EAGAIN closes the PTY and ends the loop
processInputOnce(io, r) ==
    IF r.value = "None" /\ r.errno \notin {"EINTR", "EAGAIN"}
    THEN [io |-> UnixPtyClose(io), continue |-> FALSE]
    ELSE [io |-> io, continue |-> TRUE]

\* UnixPty::write that returns right after a failed second write
UnixPtyWriteReturnsEarly(io, size, rv, rv2) ==
    IF 0 <= rv /\ rv < size
    THEN LET io1 == setFileBlocking(io, TRUE)
             second == << [bytes |-> size - rv, blocking |-> io1.blocking, rv |-> rv2] >>
         IN  IF rv2 >= 0
             THEN [io |-> setFileBlocking(io1, FALSE), second |-> second, result |-> rv + rv2]
             ELSE [io |-> io1, second |-> second, result |-> rv]
    ELSE [io |-> io, second |-> << >>, result |-> rv]

\* UnixPty::write of `size` bytes: rv is the result of the non-blocking ::write,
\* rv2 that of the ::write of the remainder
UnixPtyWrite(io, size, rv, rv2) ==
    IF 0 <= rv /\ rv < size
    THEN LET io1 == setFileBlocking(io, TRUE)
             second == << [bytes |-> size - rv, blocking |-> io1.blocking, rv |-> rv2] >>
             io2 == setFileBlocking(io1, FALSE)
         IN  [io |-> io2, second |-> second, result |-> IF rv2 >= 0 THEN rv + rv2 ELSE rv]
    ELSE [io |-> io, second |-> << >>, result |-> rv]

\* one iteration of TerminalSession::mainLoop on a UnixPty:
\* if (!terminal_.processInputOnce()) break;
IoRead ==
    /\ loopPc = "read"
    /\ \E ready \in SUBSET Descriptors, rv \in -1 .. 1, err \in Errnos :
          /\ "fastPipe" \in ready => ptyIo.fastPipe = "open"
          /\ rv >= 0 => err = "EAGAIN"
          /\ waitForReadable(ptyIo, ready).fd = NoFd => (rv = 0 /\ err = "EAGAIN")
          /\ LET r == UnixPtyRead(ptyIo, ready, rv, err)
                 p == processInputOnce(r.io, r)
             IN  /\ ptyIo' = [p.io EXCEPT
                                !.lastRead = [ready |-> ready, rv |-> rv,
                                              err |-> IF rv < 0 THEN err ELSE "-",
                                              value |-> r.value, bytes |-> r.bytes,
                                              errno |-> r.errno,
                                              fromFastPipe |-> r.fromFastPipe]]
                 /\ loopPc' = IF p.continue THEN "check" ELSE "exited"
    /\ UNCHANGED << screenVars, observerVars, renderVars, seqVars, appVars, ptyKind, terminating, wakeupPending,
                    dataPending, chunksRead, closerPc >>

\* UnixPty::write called by the thread that sends input to the child
IoWrite ==
    /\ \E size \in 1 .. MaxWriteSize, rv \in -1 .. MaxWriteSize, rv2 \in -1 .. MaxWriteSize :
          /\ rv <= size
          /\ ptyIo.masterFd = "closed" => rv = -1
          /\ IF 0 <= rv /\ rv < size THEN rv2 <= size - rv ELSE rv2 = -1
          /\ LET w == UnixPtyWrite(ptyIo, size, rv, rv2)
             IN  ptyIo' = [w.io EXCEPT
                             !.lastWrite = [size |-> size, rv |-> rv, second |-> w.second,
                                            result |-> w.result]]
    /\ UNCHANGED << screenVars, observerVars, renderVars, ptyVars, seqVars, appVars >>

PtyIoInit ==
    /\ InitScreen(Page3x3, 0, TRUE)
    /\ InitObservers(0)
    /\ InitRender
    /\ InitPty

PtyIoNext == LoopCheck \/ IoRead \/ IoWrite

PtyIoSpec == PtyIoInit /\ [][PtyIoNext]_vars

\* C17: UnixPty::read returns no value when the timeout elapses with no descriptor
\* readable, when only the wakeup pipe became readable, and when the fast pipe
\* reports end-of-file.
TimeoutElapsed == ptyIo.lastRead.ready = {}
WokenWithoutData == ptyIo.lastRead.ready = {"wakeup"}
FastPipeAtEof == "fastPipe" \in ptyIo.lastRead.ready /\ ptyIo.lastRead.rv = 0

C17_ReadReturnsNone ==
    (ptyIo.lastRead.value # "-" /\ (TimeoutElapsed \/ WokenWithoutData \/ FastPipeAtEof))
        => ptyIo.lastRead.value = "None"

C17_Witness ==
    /\ FastPipeAtEof
    /\ ptyIo.lastRead.value = "None"
    /\ ptyIo.fastPipe = "closed"
    /\ ptyIo.masterFd = "open"


\* C18: when the non-blocking ::write accepted only rv < size bytes, write() has
\* written the remaining size - rv bytes with the master in blocking mode, and the
\* master is non-blocking again once write() has returned, whether or not that
\* second ::write succeeded.
PartialWrite ==
    /\ ptyIo.lastWrite.size > 0
    /\ 0 <= ptyIo.lastWrite.rv
    /\ ptyIo.lastWrite.rv < ptyIo.lastWrite.size

C18_PartialWriteFallsBackBlocking ==
    PartialWrite =>
        /\ Len(ptyIo.lastWrite.second) = 1
        /\ ptyIo.lastWrite.second[1].bytes = ptyIo.lastWrite.size - ptyIo.lastWrite.rv
        /\ ptyIo.lastWrite.second[1].blocking
        /\ ~ptyIo.blocking

C18_Witness ==
    /\ PartialWrite
    /\ ptyIo.lastWrite.rv > 0
    /\ ptyIo.lastWrite.second[1].rv < 0
    /\ ptyIo.lastWrite.result = ptyIo.lastWrite.rv
    /\ ~ptyIo.blocking


\* C19: a ::read on the PTY that fails with an error other than EAGAIN and EINTR
\* leaves the stream closed and the input loop of the session terminated; one
\* that fails with EAGAIN or EINTR leaves the stream open and the loop running,
\* which reads again.
ReadFailed == ptyIo.lastRead.value # "-" /\ ptyIo.lastRead.rv < 0
isClosed == ptyIo.masterFd = "closed"

C19_ReadErrorClosesOrRetries ==
    ReadFailed =>
        IF ptyIo.lastRead.err \in {"EAGAIN", "EINTR"}
        THEN ~isClosed /\ loopPc \in {"check", "read"}
        ELSE isClosed /\ loopPc = "exited"

C19_Witness ==
    /\ ReadFailed
    /\ ptyIo.lastRead.err = "EIO"
    /\ isClosed
    /\ loopPc = "exited"


(***************************************************************************)
(* DECSM and DECRM with a list of mode numbers: Screen::apply hands every *)
(* parameter to impl::setModeDEC and returns the greatest of the results.  *)
(***************************************************************************)

MaxDispatchSteps == 2
MaxModeParams == 2

\* the numbers of the four modes of the model and one number toDECMode has no case for
ModeNumbers == {6, 7, 69, 2004, 9999}

\* impl::toDECMode
toDECMode(value) ==
    CASE value = 6 -> "Origin"
      [] value = 7 -> "AutoWrap"
      [] value = 47 -> "UseAlternateScreen"
      [] value = 69 -> "LeftRightMargin"
      [] value = 1047 -> "UseAlternateScreen"
      [] value = 2004 -> "BracketedPaste"
      [] OTHER -> "nullopt"

\* enum class ApplyResult { Ok, Invalid, Unsupported } as ordered by max()
ApplyResultRank(r) == CASE r = "Ok" -> 0 [] r = "Invalid" -> 1 [] r = "Unsupported" -> 2
MaxApplyResult(a, b) == IF ApplyResultRank(a) >= ApplyResultRank(b) THEN a ELSE b

\* impl::setModeDEC: the mode of one parameter
setModeDEC(s, value, enable) ==
    IF toDECMode(value) # "nullopt"
    THEN [s |-> setMode(s, toDECMode(value), enable), result |-> "Ok"]
    ELSE [s |-> s, result |-> "Invalid"]

\* Screen::apply, case DECSM / DECRM: for each parameter i,
\* t = setModeDEC(seq, i, enable, _terminal); r = max(r, t)
RECURSIVE applyModesDEC(_, _, _, _)
applyModesDEC(s, params, enable, r) ==
    IF params = << >>
    THEN [s |-> s, result |-> r]
    ELSE LET t == setModeDEC(s, Head(params), enable)
         IN  applyModesDEC(t.s, Tail(params), enable, MaxApplyResult(r, t.result))

\* Screen::applyAndLog on the outcome of apply: only Ok verifies the state
applyAndLogResult(a) == IF a.result = "Ok" THEN verifyState(a.s) ELSE a.s

ModeParams == UNION { [1 .. n -> ModeNumbers] : n \in 1 .. MaxModeParams }

DECSMParams == \E params \in ModeParams :
    LET a == applyModesDEC(Cur, params, TRUE, "Ok")
    IN  Step("DECSM", << params, a.result >>, applyAndLogResult(a))
DECRMParams == \E params \in ModeParams :
    LET a == applyModesDEC(Cur, params, FALSE, "Ok")
    IN  Step("DECRM", << params, a.result >>, applyAndLogResult(a))

DispatchInit ==
    /\ InitScreen(Page3x3, 0, TRUE)
    /\ InitObservers(MaxDispatchSteps)
    /\ InitRender
    /\ InitPty

DispatchNext == DECSMParams \/ DECRMParams

DispatchSpec == DispatchInit /\ [][DispatchNext]_vars

\* C20: after a dispatch whose result is Invalid, the terminal state (modes,
\* cursor, margins, tab stops, grid) is the state before the dispatch, also for
\* a DECSM or DECRM whose parameters mix recognised and unrecognised mode numbers.
DispatchedInvalid ==
    /\ last.op \in {"DECSM", "DECRM"}
    /\ Len(last.arg) = 2
    /\ last.arg[2] = "Invalid"

C20_InvalidLeavesStateUnchanged == DispatchedInvalid => Cur = last.pre

----------------------------------------------------------------------------
(* Screen: rectangular area operations (DECERA, DECFRA, DECCARA, DECCRA).   *)
(* A cell outside the page that a handler reads or writes is a fault.       *)

MaxRectSteps == 1

\* the parameters of the rectangle sequences: omitted, inside the page, one past it
RectParams == 0 .. MaxParam + 1

\* Screen::origin: the top left of the margins under origin mode, else the page's
origin(s) ==
    IF s.cursor.originMode
    THEN [line |-> s.margin.vert.from, column |-> s.margin.hori.from]
    ELSE [line |-> 0, column |-> 0]

\* the cells Screen::at(line, column) can reach
InPage(s, line, column) ==
    /\ 0 <= line /\ line < s.pageSize.lines
    /\ 0 <= column /\ column < s.pageSize.columns

\* for (y = top; y <= bottom; ++y) for every cell of lineAt(y).useRange(left,
\* right - left + 1): cell = Write(cell)
writeArea(s, top, left, bottom, right, Write(_)) ==
    IF \E y \in top .. bottom, x \in left .. right : ~InPage(s, y, x)
    THEN Fault(s)
    ELSE [s EXCEPT !.lines =
            [y \in DOMAIN @ |->
                IF top < y /\ y <= bottom + 1 /\ left <= right
                THEN [@[y] EXCEPT !.trivial = FALSE,
                                  !.cells = [c \in DOMAIN @ |->
                                      IF left < c /\ c <= right + 1 THEN Write(@[c]) ELSE @[c]]]
                ELSE @[y]]]

\* Screen::eraseArea
eraseArea(s, top, left, bottom, right) ==
    IF top > bottom \/ left > right THEN s
    ELSE writeArea(s, top, left, bottom, right,
                   LAMBDA cell : [cell EXCEPT !.ch = " ", !.sgr = s.cursor.sgr])

\* the text of the codepoints the model fills with
Chr(ch) ==
    CASE ch = 32 -> " "
      [] ch = 65 -> "A"
      [] ch = 126 -> "~"
      [] ch = 160 -> "U+00A0"
      [] ch = 255 -> "U+00FF"
      [] OTHER -> "?"

\* "Pch can be any value from 32 to 126 or from 160 to 255."
FillableCodepoint(ch) == (32 <= ch /\ ch <= 126) \/ (160 <= ch /\ ch <= 255)

\* Screen::fillArea
fillArea(s, ch, top, left, bottom, right) ==
    IF ~FillableCodepoint(ch) THEN s
    ELSE writeArea(s, top, left, bottom, right,
                   LAMBDA cell : [cell EXCEPT !.ch = Chr(ch), !.sgr = s.cursor.sgr])

\* the offsets 0 .. n-1 in the order the loop of copyArea visits them
LoopOffsets(n, backwards) == [i \in 1 .. n |-> IF backwards THEN n - i ELSE i - 1]

\* targetCell = sourceCell, one cell after the other in the order of the loops
RECURSIVE copyCells(_, _, _, _)
copyCells(s, source, target, offsets) ==
    IF offsets = << >> \/ s.status # "running" THEN s
    ELSE LET y == Head(offsets)[1]
             x == Head(offsets)[2]
         IN  IF ~InPage(s, source.top + y, source.left + x)
                \/ ~InPage(s, target.line + y, target.column + x)
             THEN Fault(s)
             ELSE copyCells(
                    [s EXCEPT !.lines[target.line + y + 1].cells[target.column + x + 1] =
                                  s.lines[source.top + y + 1].cells[source.left + x + 1],
                              !.lines[target.line + y + 1].trivial = FALSE],
                    source, target, Tail(offsets))

\* Screen::copyArea with both loops always running forwards
copyAreaForwards(s, source, target) ==
    IF source.bottom < source.top \/ source.right < source.left THEN s
    ELSE IF source.top = target.line /\ source.left = target.column THEN s
    ELSE LET h == source.bottom - source.top + 1
             w == source.right - source.left + 1
             ys == LoopOffsets(h, FALSE)
             xs == LoopOffsets(w, FALSE)
         IN  copyCells(s, source, target,
                       [k \in 1 .. h * w |-> << ys[((k - 1) \div w) + 1], xs[((k - 1) % w) + 1] >>])

\* Screen::copyArea: the rows run backwards when the target is below the source,
\* the columns when it is right of it
copyArea(s, source, target) ==
    IF source.bottom < source.top \/ source.right < source.left THEN s
    ELSE IF source.top = target.line /\ source.left = target.column THEN s
    ELSE LET h == source.bottom - source.top + 1
             w == source.right - source.left + 1
             ys == LoopOffsets(h, target.line > source.top)
             xs == LoopOffsets(w, target.column > source.left)
         IN  copyCells(s, source, target,
                       [k \in 1 .. h * w |-> << ys[((k - 1) \div w) + 1], xs[((k - 1) % w) + 1] >>])

\* Screen::apply, case DECERA
DECERA == steps > 0 /\ \E t, l, b, r \in RectParams :
    Step("DECERA", << t, l, b, r >>,
         applyAndLog(eraseArea(Cur, ParamOr(t, origin(Cur).line + 1) - 1,
                               ParamOr(l, origin(Cur).column + 1) - 1,
                               Min(ParamOr(b, pageSize.lines), pageSize.lines) - 1,
                               Min(ParamOr(r, pageSize.columns), pageSize.columns) - 1)))

\* the values of Pch the model sends: omitted, the ends of both ranges and their neighbours
PchValues == {0, 31, 32, 65, 126, 127, 159, 160, 255, 256}

\* Screen::apply, case DECFRA: ch and top are both read from parameter 0,
\* left, bottom and right from parameters 1, 2 and 3
DECFRA == steps > 0 /\ \E ch \in PchValues, t, l, b, r \in RectParams :
    Step("DECFRA", << ch, t, l, b, r >>,
         applyAndLog(fillArea(Cur, ch, ParamOr(ch, origin(Cur).line),
                              ParamOr(t, origin(Cur).column),
                              Min(ParamOr(l, pageSize.lines), pageSize.lines),
                              Min(ParamOr(b, pageSize.columns), pageSize.columns))))

\* Screen::apply, case DECCARA: impl::applySGR on every cell of the rectangle;
\* the rendition of the model is a foreground colour
DECCARA == steps > 0 /\ \E t, l, b, r \in RectParams, color \in {0, 1} :
    Step("DECCARA", << t, l, b, r, color >>,
         applyAndLog(writeArea(Cur, ParamOr(t, origin(Cur).line + 1) - 1,
                               ParamOr(l, origin(Cur).column + 1) - 1,
                               ParamOr(b, pageSize.lines) - 1,
                               ParamOr(r, pageSize.columns) - 1,
                               LAMBDA cell : [cell EXCEPT !.sgr.fg = color])))

\* Screen::apply, case DECCRA
DECCRA == steps > 0 /\ \E t, l, b, r, tt, tl \in RectParams :
    Step("DECCRA", << t, l, b, r, tt, tl >>,
         applyAndLog(copyArea(Cur,
                              [top |-> ParamOr(t, origin(Cur).line + 1) - 1,
                               left |-> ParamOr(l, origin(Cur).column + 1) - 1,
                               bottom |-> ParamOr(b, pageSize.lines) - 1,
                               right |-> ParamOr(r, pageSize.columns) - 1],
                              [line |-> ParamOr(tt, origin(Cur).line + 1) - 1,
                               column |-> ParamOr(tl, origin(Cur).column + 1) - 1])))

\* a 3x3 page showing 1 2 3 / 4 5 6 / 7 8 9, under origin mode with margins or not
RectContent == << << "1", "2", "3" >>, << "4", "5", "6" >>, << "7", "8", "9" >> >>

RectInit ==
    /\ pageSize = Page3x3
    /\ reflowOnResize = TRUE
    /\ maxHistoryLineCount = 0
    /\ usingStdoutFastPipe = FALSE
    /\ \E om \in BOOLEAN, fg \in {0, 1} :
        cursor = [DefaultCursor EXCEPT !.originMode = om, !.sgr.fg = fg]
    /\ savedCursor = DefaultCursor
    /\ margin \in { FullMargin(Page3x3),
                    [vert |-> [from |-> 1, to |-> 2], hori |-> [from |-> 1, to |-> 2]] }
    /\ modes = [m \in DECModes |->
                  CASE m = "AutoWrap" -> TRUE
                    [] m = "Origin" -> cursor.originMode
                    [] m = "LeftRightMargin" -> margin.hori # FullMargin(Page3x3).hori
                    [] OTHER -> FALSE]
    /\ savedModes = [m \in DECModes |-> << >>]
    /\ lines = [i \in 1 .. Page3x3.lines |->
                  [cells |-> [c \in 1 .. Page3x3.columns |->
                                 [ch |-> RectContent[i][c], sgr |-> DefaultSGR, hl |-> 0]],
                   wrappable |-> TRUE, wrapped |-> FALSE, trivial |-> FALSE]]
    /\ history = << >>
    /\ tabs = << >>
    /\ status = "running"
    /\ InitObservers(MaxRectSteps)
    /\ InitRender
    /\ InitPty

RectNext == CUP \/ DECERA \/ DECSERA \/ DECFRA \/ DECCARA \/ DECCRA

RectSpec == RectInit /\ [][RectNext]_vars

\* C21: whatever their parameters, CUP, DECERA, DECSERA, DECFRA, DECCARA and
\* DECCRA read and write only cells of the page.
C21_RectanglesClampToPage ==
    last.op \in {"CUP", "DECERA", "DECSERA", "DECFRA", "DECCARA", "DECCRA"} => status # "fault"

----------------------------------------------------------------------------
(* Sequencer: the parameters of a control sequence and SGR.                 *)
(* The parser hands the sequencer the parameter bytes one by one; the       *)
(* parameters are stored flat, every value flagged as a sub-parameter or    *)
(* not.  An item of an input is a value (-1: omitted) and whether ':'       *)
(* introduces it.                                                           *)

DigitChars == << "0", "1", "2", "3", "4", "5", "6", "7", "8", "9" >>

\* ch - '0'
DigitValue(ch) == CHOOSE d \in 0 .. 9 : DigitChars[d + 1] = ch

RECURSIVE Decimal(_)
Decimal(v) ==
    IF v < 10 THEN << DigitChars[v + 1] >>
    ELSE Decimal(v \div 10) \o << DigitChars[(v % 10) + 1] >>

\* the parameter bytes of the items
RECURSIVE ParameterBytes(_, _)
ParameterBytes(items, k) ==
    IF k > Len(items) THEN << >>
    ELSE (IF k = 1 THEN << >> ELSE IF items[k].sub THEN << ":" >> ELSE << ";" >>)
         \o (IF items[k].v < 0 THEN << >> ELSE Decimal(items[k].v))
         \o ParameterBytes(items, k + 1)

\* SequenceParameterBuilder::multiplyBy10AndAdd on 16-bit parameters
multiplyBy10AndAdd(b, d) ==
    [b EXCEPT !.values[Len(b.values)] = (@ * 10 + d) % 65536]

\* SequenceParameterBuilder::nextParameter; at most 16 values are stored
nextParameter(b) ==
    IF Len(b.values) < 16
    THEN [b EXCEPT !.values = Append(@, 0), !.sub = Append(@, FALSE)]
    ELSE b

\* SequenceParameterBuilder::nextSubParameter
nextSubParameter(b) ==
    IF Len(b.values) < 16
    THEN [b EXCEPT !.values = Append(@, 0), !.sub = Append(@, TRUE)]
    ELSE b

\* SequenceParameterBuilder::fixiate: a lone 0 is no parameter at all
parameterCount(b) == IF Len(b.values) = 1 /\ b.values[1] = 0 THEN 0 ELSE Len(b.values)

\* Sequence::param(i) and Sequence::subparam(i, j) = param(i + j)
param(b, i) == IF i < Len(b.values) THEN b.values[i + 1] ELSE 0

\* SequenceParameters::subParameterCount(i): the sub-parameters that follow value i
subParameterCount(b, i) ==
    IF i >= Len(b.values) \/ b.sub[i + 1] THEN 0
    ELSE Cardinality({ j \in i + 2 .. Len(b.values) : \A k \in i + 2 .. j : b.sub[k] })

DefaultColor == [type |-> "Default", v |-> << >>]
UndefinedColor == [type |-> "Undefined", v |-> << >>]
IndexedColor(n) == [type |-> "Indexed", v |-> << n % 256 >>]
BrightColor(n) == [type |-> "Bright", v |-> << n >>]
RGBColor(r, g, b) == [type |-> "RGB", v |-> << r % 256, g % 256, b % 256 >>]

\* impl::parseColor, "failure case, skip this argument"
parseColorFailure(i) == [color |-> UndefinedColor, i |-> i + 1]

\* impl::parseColor, "Compatibility mode, colors using ';' instead of ':'"
parseColorCompat(b, i0) ==
    IF i0 + 1 < parameterCount(b)
    THEN LET i == i0 + 1
             mode == param(b, i)
         IN  IF mode = 5
             THEN IF i + 1 < parameterCount(b)
                  THEN IF i + 1 <= 255
                       THEN [color |-> IndexedColor(param(b, i + 1)), i |-> i + 1]
                       ELSE parseColorFailure(i + 1)
                  ELSE parseColorFailure(i)
             ELSE IF mode = 2
             THEN IF i + 3 < parameterCount(b)
                  THEN IF param(b, i + 1) <= 255 /\ param(b, i + 2) <= 255 /\ param(b, i + 3) <= 255
                       THEN [color |-> RGBColor(param(b, i + 1), param(b, i + 2), param(b, i + 3)),
                             i |-> i + 3]
                       ELSE parseColorFailure(i + 3)
                  ELSE parseColorFailure(i)
             ELSE parseColorFailure(i)
    ELSE parseColorFailure(i0)

\* impl::parseColor reading red, green and blue right after the colour space
parseColorNoColourSpaceId(b, i) ==
    LET len == subParameterCount(b, i) IN
    IF len >= 1 /\ param(b, i + 1) = 2 /\ (len = 4 \/ len = 5)
       /\ param(b, i + 2) <= 255 /\ param(b, i + 3) <= 255 /\ param(b, i + 4) <= 255
    THEN [color |-> RGBColor(param(b, i + 2), param(b, i + 3), param(b, i + 4)), i |-> i + len]
    ELSE IF len >= 1 /\ param(b, i + 1) = 5 /\ param(b, i + 2) <= 255
    THEN [color |-> IndexedColor(param(b, i + 2)), i |-> i + len]
    ELSE parseColorCompat(b, i)

\* impl::parseColor(seq, &i): the colour and the index the caller continues after
parseColor(b, i) ==
    LET len == subParameterCount(b, i) IN
    IF len >= 1 /\ param(b, i + 1) = 2 /\ (len = 4 \/ len = 5)
       /\ param(b, i + len - 2) <= 255 /\ param(b, i + len - 1) <= 255 /\ param(b, i + len) <= 255
    THEN [color |-> RGBColor(param(b, i + len - 2), param(b, i + len - 1), param(b, i + len)),
          i |-> i + len]
    ELSE IF len >= 1 /\ param(b, i + 1) = 5 /\ param(b, i + 2) <= 255
    THEN [color |-> IndexedColor(param(b, i + 2)), i |-> i + len]
    ELSE parseColorCompat(b, i)

\* setGraphicsRendition(Reset): the colours of a default rendition
ResetRendition == [fg |-> DefaultColor, bg |-> DefaultColor, ul |-> DefaultColor]

\* impl::applySGR, the loop from parameter i on; renditions other than colours
\* are not part of the model
RECURSIVE applySGRFrom(_, _, _)
applySGRFrom(r, b, i) ==
    IF i >= parameterCount(b) THEN r
    ELSE LET p == param(b, i)
             c == parseColor(b, i)
         IN  CASE p = 0 -> applySGRFrom(ResetRendition, b, i + 1)
               [] p = 4 -> applySGRFrom(r, b, IF subParameterCount(b, i) = 1 THEN i + 2 ELSE i + 1)
               [] 30 <= p /\ p <= 37 -> applySGRFrom([r EXCEPT !.fg = IndexedColor(p - 30)], b, i + 1)
               [] p = 38 -> applySGRFrom([r EXCEPT !.fg = c.color], b, c.i + 1)
               [] p = 39 -> applySGRFrom([r EXCEPT !.fg = DefaultColor], b, i + 1)
               [] 40 <= p /\ p <= 47 -> applySGRFrom([r EXCEPT !.bg = IndexedColor(p - 40)], b, i + 1)
               [] p = 48 -> applySGRFrom([r EXCEPT !.bg = c.color], b, c.i + 1)
               [] p = 49 -> applySGRFrom([r EXCEPT !.bg = DefaultColor], b, i + 1)
               [] p = 58 -> applySGRFrom([r EXCEPT !.ul = c.color], b, c.i + 1)
               [] 90 <= p /\ p <= 97 -> applySGRFrom([r EXCEPT !.fg = BrightColor(p - 90)], b, i + 1)
               [] 100 <= p /\ p <= 107 -> applySGRFrom([r EXCEPT !.bg = BrightColor(p - 100)], b, i + 1)
               [] OTHER -> applySGRFrom(r, b, i + 1)

\* impl::applySGR(target, seq, 0, seq.parameterCount())
applySGR(r, b) == IF parameterCount(b) = 0 THEN ResetRendition ELSE applySGRFrom(r, b, 0)

Item(v, sub) == [v |-> v, sub |-> sub]

\* SGR sel;5;n and sel:5:n
IndexedItems(sel, colon, n) == << Item(sel, FALSE), Item(5, colon), Item(n, colon) >>

\* SGR sel;2;r;g;b, sel:2:r:g:b and sel:2::r:g:b
RGBItems(sel, form, r, g, b) ==
    CASE form = ";2;r;g;b" ->
           << Item(sel, FALSE), Item(2, FALSE), Item(r, FALSE), Item(g, FALSE), Item(b, FALSE) >>
      [] form = ":2:r:g:b" ->
           << Item(sel, FALSE), Item(2, TRUE), Item(r, TRUE), Item(g, TRUE), Item(b, TRUE) >>
      [] form = ":2::r:g:b" ->
           << Item(sel, FALSE), Item(2, TRUE), Item(-1, TRUE), Item(r, TRUE), Item(g, TRUE),
              Item(b, TRUE) >>

ColourSelectors == {38, 48, 58}
IndexValues == {0, 9, 255, 256, 300}
RedValues == {0, 171, 256}
GreenValues == {178, 256}
BlueValues == {191, 255, 256}
RGBForms == {";2;r;g;b", ":2:r:g:b", ":2::r:g:b"}

\* "1;38:2::171:178:191;4" and ";12::34:56;7;89"
ComplexOne ==
    << Item(1, FALSE), Item(38, FALSE), Item(2, TRUE), Item(-1, TRUE), Item(171, TRUE),
       Item(178, TRUE), Item(191, TRUE), Item(4, FALSE) >>
ComplexTwo ==
    << Item(-1, FALSE), Item(12, FALSE), Item(-1, TRUE), Item(34, TRUE), Item(56, TRUE),
       Item(7, FALSE), Item(89, FALSE) >>

SequencerInputs ==
    { IndexedItems(sel, colon, n) : sel \in ColourSelectors, colon \in BOOLEAN, n \in IndexValues }
    \cup { RGBItems(x[1], x[2], x[3], x[4], x[5]) :
             x \in ColourSelectors \X RGBForms \X RedValues \X GreenValues \X BlueValues }
    \cup { ComplexOne, ComplexTwo }

Builder == [values |-> sequencer.values, sub |-> sequencer.sub]

SequencerStep == UNCHANGED << screenVars, observerVars, renderVars, ptyVars, ioVars, appVars >>

\* Sequencer::paramDigit
ParamDigit ==
    /\ sequencer.rest # << >>
    /\ Head(sequencer.rest) \notin {";", ":"}
    /\ sequencer' = [sequencer EXCEPT
                       !.rest = Tail(@),
                       !.values = multiplyBy10AndAdd(Builder, DigitValue(Head(sequencer.rest))).values]
    /\ SequencerStep

\* Sequencer::paramSubSeparator starting a parameter of its own
ParamSubSeparatorAsSeparator ==
    /\ sequencer.rest # << >>
    /\ Head(sequencer.rest) = ":"
    /\ sequencer' = [sequencer EXCEPT !.rest = Tail(@),
                                      !.values = nextParameter(Builder).values,
                                      !.sub = nextParameter(Builder).sub]
    /\ SequencerStep

\* Sequencer::paramSeparator
ParamSeparator ==
    /\ sequencer.rest # << >>
    /\ Head(sequencer.rest) = ";"
    /\ sequencer' = [sequencer EXCEPT !.rest = Tail(@),
                                      !.values = nextParameter(Builder).values,
                                      !.sub = nextParameter(Builder).sub]
    /\ SequencerStep

\* Sequencer::paramSubSeparator
ParamSubSeparator ==
    /\ sequencer.rest # << >>
    /\ Head(sequencer.rest) = ":"
    /\ sequencer' = [sequencer EXCEPT !.rest = Tail(@),
                                      !.values = nextSubParameter(Builder).values,
                                      !.sub = nextSubParameter(Builder).sub]
    /\ SequencerStep

\* Sequencer::dispatchCSI with the final byte 'm': Screen::apply, case SGR
DispatchSGR ==
    /\ sequencer.rest = << >>
    /\ ~sequencer.dispatched
    /\ sequencer' = [sequencer EXCEPT !.dispatched = TRUE,
                                      !.rendition = applySGR(@, Builder)]
    /\ SequencerStep

\* the three colours of the cursor's rendition before the sequence
InitialRenditions ==
    { ResetRendition,
      [fg |-> IndexedColor(1), bg |-> RGBColor(1, 2, 3), ul |-> IndexedColor(4)] }

SequencerInit ==
    /\ InitScreen(Page3x3, 0, TRUE)
    /\ InitObservers(0)
    /\ InitRender
    /\ ptyKind = "UnixPty"
    /\ terminating = FALSE
    /\ loopPc = "check"
    /\ wakeupPending = "none"
    /\ dataPending = [chunks |-> 0, eof |-> FALSE]
    /\ chunksRead = 0
    /\ closerPc = "idle"
    /\ ptyIo = InitIo
    /\ InitApp
    /\ \E items \in SequencerInputs, r \in InitialRenditions :
          sequencer = [input |-> items, rest |-> ParameterBytes(items, 1),
                       values |-> << 0 >>, sub |-> << FALSE >>,
                       rendition |-> r, before |-> r, dispatched |-> FALSE]

SequencerNext == ParamDigit \/ ParamSeparator \/ ParamSubSeparator \/ DispatchSGR

SequencerSpec == SequencerInit /\ [][SequencerNext]_vars

\* the colour an SGR with the selector sel sets
TargetColour(r, sel) == CASE sel = 38 -> r.fg [] sel = 48 -> r.bg [] sel = 58 -> r.ul

\* the input selects an indexed or an RGB colour with a value above 255
OutOfRangeSelector ==
    \/ \E sel \in ColourSelectors, colon \in BOOLEAN, n \in IndexValues :
          n > 255 /\ sequencer.input = IndexedItems(sel, colon, n)
    \/ \E x \in ColourSelectors \X RGBForms \X RedValues \X GreenValues \X BlueValues :
          /\ x[3] > 255 \/ x[4] > 255 \/ x[5] > 255
          /\ sequencer.input = RGBItems(x[1], x[2], x[3], x[4], x[5])

\* C22: an SGR colour selector with an index or a component above 255 is skipped:
\* the colour it targets keeps the value it had before the sequence.
C22_OutOfRangeColourSkipped ==
    (sequencer.dispatched /\ OutOfRangeSelector) =>
        TargetColour(sequencer.rendition, sequencer.input[1].v)
            = TargetColour(sequencer.before, sequencer.input[1].v)


\* the value the builder holds for an item
ItemValue(item) == IF item.v < 0 THEN 0 ELSE item.v

SemicolonInput == IndexedItems(38, FALSE, 9)
ColonInput == IndexedItems(38, TRUE, 9)

\* the values that are parameters of their own
MainParameters == { i \in 0 .. Len(sequencer.values) - 1 : ~sequencer.sub[i + 1] }

\* C23: the parameter list records for every value whether ';' or ':' introduced
\* it; "38;5;9" gives three parameters without sub-parameters, "38:5:9" one
\* parameter with two sub-parameters, and an omitted value reads as 0.
C23_SeparatorsRecorded ==
    sequencer.rest = << >> =>
        /\ Len(sequencer.values) = Len(sequencer.input)
        /\ \A k \in 1 .. Len(sequencer.input) :
              /\ sequencer.values[k] = ItemValue(sequencer.input[k])
              /\ sequencer.sub[k] = sequencer.input[k].sub
        /\ sequencer.input = SemicolonInput =>
              /\ MainParameters = {0, 1, 2}
              /\ \A i \in MainParameters : subParameterCount(Builder, i) = 0
        /\ sequencer.input = ColonInput =>
              /\ MainParameters = {0}
              /\ subParameterCount(Builder, 0) = 2

C23_Witness ==
    /\ sequencer.rest = << >>
    /\ sequencer.input = ComplexTwo
    /\ sequencer.values = << 0, 12, 0, 34, 56, 7, 89 >>
    /\ subParameterCount(Builder, 1) = 3

\* C24: for SGR 38, 48 and 58 every accepted encoding of a colour sets that
\* colour: ;5;n and :5:n select the indexed colour n, and ;2;r;g;b, :2::r:g:b and
\* :2:r:g:b select RGB(r, g, b).
C24_EncodingsAgree ==
    sequencer.dispatched =>
        \A sel \in ColourSelectors :
            /\ \A colon \in BOOLEAN, n \in IndexValues :
                  (n <= 255 /\ sequencer.input = IndexedItems(sel, colon, n)) =>
                      TargetColour(sequencer.rendition, sel) = IndexedColor(n)
            /\ \A x \in RGBForms \X RedValues \X GreenValues \X BlueValues :
                  (/\ x[2] <= 255 /\ x[3] <= 255 /\ x[4] <= 255
                   /\ sequencer.input = RGBItems(sel, x[1], x[2], x[3], x[4])) =>
                      TargetColour(sequencer.rendition, sel) = RGBColor(x[2], x[3], x[4])

C24_Witness ==
    /\ sequencer.dispatched
    /\ sequencer.input = RGBItems(58, ":2::r:g:b", 171, 178, 191)
    /\ sequencer.rendition.ul = RGBColor(171, 178, 191)
    /\ sequencer.rendition.fg = sequencer.before.fg


\* the source rectangle and the target position of the DECCRA just dispatched
CopySource ==
    [top |-> ParamOr(last.arg[1], origin(last.pre).line + 1) - 1,
     left |-> ParamOr(last.arg[2], origin(last.pre).column + 1) - 1,
     bottom |-> ParamOr(last.arg[3], last.pre.pageSize.lines) - 1,
     right |-> ParamOr(last.arg[4], last.pre.pageSize.columns) - 1]
CopyTarget ==
    [line |-> ParamOr(last.arg[5], origin(last.pre).line + 1) - 1,
     column |-> ParamOr(last.arg[6], origin(last.pre).column + 1) - 1]

\* the DECCRA just dispatched names a rectangle of the page as its source
CopiedRectangle ==
    /\ last.op = "DECCRA"
    /\ CopySource.top <= CopySource.bottom
    /\ CopySource.left <= CopySource.right
    /\ InPage(last.pre, CopySource.bottom, CopySource.right)

\* the target rectangle shows what the source rectangle showed before the copy
TargetEqualsSource ==
    /\ status = "running"
    /\ \A y \in 0 .. CopySource.bottom - CopySource.top,
          x \in 0 .. CopySource.right - CopySource.left :
          /\ InPage(Cur, CopyTarget.line + y, CopyTarget.column + x)
          /\ lines[CopyTarget.line + y + 1].cells[CopyTarget.column + x + 1]
                = last.pre.lines[CopySource.top + y + 1].cells[CopySource.left + x + 1]

\* C25: after DECCRA, wherever the target lies relative to the source, the target
\* rectangle equals the content the source rectangle had before the copy.
C25_CopyPreservesSource == CopiedRectangle => TargetEqualsSource

\* the target rectangle of the DECCRA just dispatched lies on the page
TargetOnPage ==
    InPage(last.pre, CopyTarget.line + CopySource.bottom - CopySource.top,
           CopyTarget.column + CopySource.right - CopySource.left)


\* the rectangle (Pt, Pl)-(Pb, Pr) of the DECFRA just dispatched, 0-based
FillRectangle ==
    [top |-> ParamOr(last.arg[2], origin(last.pre).line + 1) - 1,
     left |-> ParamOr(last.arg[3], origin(last.pre).column + 1) - 1,
     bottom |-> Min(ParamOr(last.arg[4], last.pre.pageSize.lines), last.pre.pageSize.lines) - 1,
     right |-> Min(ParamOr(last.arg[5], last.pre.pageSize.columns), last.pre.pageSize.columns) - 1]

\* C26: DECFRA Pch;Pt;Pl;Pb;Pr fills the rectangle (Pt,Pl)-(Pb,Pr) with Pch when
\* Pch is in [32,126] or [160,255], and leaves the grid unchanged for any other Pch.
C26_FillsRectangle ==
    last.op = "DECFRA" =>
        IF FillableCodepoint(last.arg[1])
        THEN \A y \in FillRectangle.top .. FillRectangle.bottom,
                x \in FillRectangle.left .. FillRectangle.right :
                lines[y + 1].cells[x + 1].ch = Chr(last.arg[1])
        ELSE lines = last.pre.lines


----------------------------------------------------------------------------
(* Screen: tab stops (HT, HTS, TBC, CHT, CBT) on a page of one line and    *)
(* eighteen columns, wide enough for the default stops at columns 8 and 16. *)

MaxTabSteps == 3
MaxTabCount == 2

\* Screen.cpp: auto constexpr inline TabWidth = ColumnCount(8)
TabWidth == 8

TabPage == [lines |-> 1, columns |-> 18]

\* the columns CHA addresses in this specification
TabColumns == {0, 3, 7, 8, 9, 12, 15, 16, 17}

\* the element v put into the ascending sequence seq: emplace_back, then sort
InsertSorted(seq, v) ==
    LET k == Cardinality({i \in 1 .. Len(seq) : seq[i] <= v})
    IN  SubSeq(seq, 1, k) \o << v >> \o SubSeq(seq, k + 1, Len(seq))

\* Screen::clearAllTabs
clearAllTabs(s) == [s EXCEPT !.tabs = << >>]

\* Screen::clearTabUnderCursor: an empty vector is first filled with the
\* default stops, then the first element equal to the cursor column is erased
clearTabUnderCursor(s) ==
    LET populated == IF s.tabs = << >>
                     THEN [k \in 1 .. ((s.pageSize.columns - 1) \div TabWidth) |->
                              k * TabWidth - 1]
                     ELSE s.tabs
        found == {i \in 1 .. Len(populated) : populated[i] = realCursorPosition(s).column}
        first == CHOOSE i \in found : \A j \in found : i <= j
    IN  IF found = {} THEN [s EXCEPT !.tabs = populated]
        ELSE [s EXCEPT !.tabs = SubSeq(populated, 1, first - 1)
                                  \o SubSeq(populated, first + 1, Len(populated))]

\* clearTabUnderCursor erasing every element equal to the cursor column
clearTabUnderCursorAll(s) ==
    LET populated == IF s.tabs = << >>
                     THEN [k \in 1 .. ((s.pageSize.columns - 1) \div TabWidth) |->
                              k * TabWidth - 1]
                     ELSE s.tabs
    IN  [s EXCEPT !.tabs = SelectSeq(populated,
                                     LAMBDA t : t # realCursorPosition(s).column)]

\* Screen::setTabUnderCursor
setTabUnderCursor(s) == [s EXCEPT !.tabs = InsertSorted(s.tabs, realCursorPosition(s).column)]

\* Screen::horizontalTabClear
horizontalTabClear(s, which) ==
    IF which = "AllTabs" THEN clearAllTabs(s) ELSE clearTabUnderCursor(s)

\* Screen::horizontalTabSet
horizontalTabSet(s) == setTabUnderCursor(s)

\* impl::TBC for a sequence of count parameters, the first of them p
implTBC(s, count, p) ==
    IF count # 1 THEN [s |-> horizontalTabClear(s, "UnderCursor"), result |-> "Ok"]
    ELSE CASE p = 0 -> [s |-> horizontalTabClear(s, "UnderCursor"), result |-> "Ok"]
           [] p = 3 -> [s |-> horizontalTabClear(s, "AllTabs"), result |-> "Ok"]
           [] OTHER -> [s |-> s, result |-> "Invalid"]

\* moveCursorToNextTab whose default stops are one column early
moveCursorToNextTabEarly(s) ==
    LET column == realCursorPosition(s).column
        currentCursorColumn == logicalCursorPosition(s).column
        later == {i \in 1 .. Len(s.tabs) : ~(column >= s.tabs[i])}
        i == CHOOSE i \in later : \A j \in later : i <= j
    IN  IF s.tabs # << >>
        THEN IF later # {}
             THEN moveCursorForward(s, s.tabs[i] - currentCursorColumn)
             ELSE IF column < s.margin.hori.to
                  THEN moveCursorForward(s, s.margin.hori.to - currentCursorColumn)
                  ELSE s
        ELSE IF column < s.margin.hori.to
             THEN moveCursorForward(s, Max(1, TabWidth - 1 - (column % TabWidth)))
             ELSE s

\* Screen::moveCursorToNextTab
moveCursorToNextTab(s) ==
    LET column == realCursorPosition(s).column
        currentCursorColumn == logicalCursorPosition(s).column
        later == {i \in 1 .. Len(s.tabs) : ~(column >= s.tabs[i])}
        i == CHOOSE i \in later : \A j \in later : i <= j
    IN  IF s.tabs # << >>
        THEN IF later # {}
             THEN moveCursorForward(s, s.tabs[i] - currentCursorColumn)
             ELSE IF column < s.margin.hori.to
                  THEN moveCursorForward(s, s.margin.hori.to - currentCursorColumn)
                  ELSE s
        ELSE IF column < s.margin.hori.to
             THEN moveCursorForward(s, Min(TabWidth - (column % TabWidth),
                                           s.pageSize.columns - currentCursorColumn))
             ELSE s

\* Screen::cursorForwardTab
RECURSIVE cursorForwardTab(_, _)
cursorForwardTab(s, count) ==
    IF count <= 0 THEN s ELSE cursorForwardTab(moveCursorToNextTab(s), count - 1)

\* the loop of Screen::cursorBackwardTab over explicit tab stops
RECURSIVE backwardOverTabs(_, _)
backwardOverTabs(s, k) ==
    IF k <= 0 THEN s
    ELSE LET before == {i \in 1 .. Len(s.tabs) : s.tabs[i] < logicalCursorPosition(s).column}
             i == CHOOSE i \in before : \A j \in before : j <= i
         IN  IF before # {}
             THEN backwardOverTabs(moveCursorToColumn(s, s.tabs[i]), k - 1)
             ELSE moveCursorToColumn(s, s.margin.hori.from)

\* Screen::cursorBackwardTab
cursorBackwardTab(s, count) ==
    IF count = 0 THEN s
    ELSE IF s.tabs # << >> THEN backwardOverTabs(s, count)
    ELSE IF s.cursor.column < TabWidth THEN moveCursorToBeginOfLine(s)
    ELSE LET m == (s.cursor.column + 1) % TabWidth
             n == IF m # 0 THEN (count - 1) * TabWidth + m ELSE count * TabWidth + m
         IN  moveCursorBackward(s, n - 1)

\* Screen::executeControlCode, case 0x09
HT == Step("HT", << >>, applyAndLog(moveCursorToNextTab(Cur)))

\* Screen::apply, case HTS
HTS == Step("HTS", << >>, applyAndLog(horizontalTabSet(Cur)))

\* Screen::apply, case TBC: CSI g, CSI 0 g, CSI 1 g, CSI 3 g
TBC == steps > 0 /\ \E a \in {<< 0, 0 >>, << 1, 0 >>, << 1, 1 >>, << 1, 3 >>} :
    Step("TBC", a, applyAndLogResult(implTBC(Cur, a[1], a[2])))

\* Screen::apply, case CHT
CHT == steps > 0 /\ \E n \in 0 .. MaxTabCount :
    Step("CHT", << n >>, applyAndLog(cursorForwardTab(Cur, ParamOr(n, 1))))

\* Screen::apply, case CBT
CBT == steps > 0 /\ \E n \in 0 .. MaxTabCount :
    Step("CBT", << n >>, applyAndLog(cursorBackwardTab(Cur, ParamOr(n, 1))))

\* Screen::apply, case CHA, the column drawn from TabColumns
CHATab == steps > 0 /\ \E c \in TabColumns :
    Step("CHA", << c + 1 >>, applyAndLog(moveCursorToColumn(Cur, ParamOr(c + 1, 1) - 1)))

\* the margins of TabInit: the full page, or columns 2 .. 12 (DECSLRM 3;13)
TabMargins == { FullMargin(TabPage),
                [vert |-> FullMargin(TabPage).vert, hori |-> [from |-> 2, to |-> 12]] }

\* a fresh page, or one after DECSLRM and DECOM: the cursor at the origin
TabInit ==
    /\ pageSize = TabPage
    /\ reflowOnResize = TRUE
    /\ maxHistoryLineCount = 0
    /\ usingStdoutFastPipe = FALSE
    /\ margin \in TabMargins
    /\ \E om \in BOOLEAN :
        cursor = [DefaultCursor EXCEPT !.originMode = om,
                                       !.column = IF om THEN margin.hori.from ELSE 0]
    /\ savedCursor = DefaultCursor
    /\ modes = [m \in DECModes |->
                  CASE m = "AutoWrap" -> TRUE
                    [] m = "Origin" -> cursor.originMode
                    [] m = "LeftRightMargin" -> margin.hori # FullMargin(TabPage).hori
                    [] OTHER -> FALSE]
    /\ savedModes = [m \in DECModes |-> << >>]
    /\ lines = [i \in 1 .. TabPage.lines |-> BlankLine(TabPage.columns, TRUE, DefaultSGR)]
    /\ history = << >>
    /\ tabs = << >>
    /\ status = "running"
    /\ InitObservers(MaxTabSteps)
    /\ InitRender
    /\ InitPty

TabNext == HT \/ HTS \/ TBC \/ CHT \/ CBT \/ CHATab

TabSpec == TabInit /\ [][TabNext]_vars

\* the first default tab stop right of column c
NextDefaultStop(c) == (c \div TabWidth + 1) * TabWidth

\* C27 as stated: with no tab stop set, HT moves the cursor to the next multiple
\* of 8, or to the right margin when that column is not before the margin.
C27_DefaultTabsAsStated ==
    (last.op = "HT" /\ last.pre.tabs = << >>) =>
        cursor.column = Min(NextDefaultStop(last.pre.cursor.column), last.pre.margin.hori.to)

\* C27: with no tab stop set, HT from a column not right of the right margin
\* moves the cursor to the next multiple of 8, or to the right margin when that
\* column is not before the margin; a cursor right of the right margin stays.
C27_DefaultTabs ==
    (last.op = "HT" /\ last.pre.tabs = << >>) =>
        /\ status = "running"
        /\ cursor.line = last.pre.cursor.line
        /\ cursor.column =
             IF last.pre.cursor.column <= last.pre.margin.hori.to
             THEN Min(NextDefaultStop(last.pre.cursor.column), last.pre.margin.hori.to)
             ELSE last.pre.cursor.column

C27_Witness ==
    /\ last.op = "HT" /\ last.pre.tabs = << >>
    /\ last.pre.cursor.column = 9
    /\ cursor.column = 16

C27_WitnessRightOfMargin ==
    /\ last.op = "HT" /\ last.pre.tabs = << >>
    /\ last.pre.cursor.column > last.pre.margin.hori.to


\* the tab stops in effect: those of the vector, and every 8th column while it is empty
TabStops(s) ==
    IF s.tabs = << >>
    THEN {k * TabWidth : k \in 1 .. ((s.pageSize.columns - 1) \div TabWidth)}
    ELSE {s.tabs[i] : i \in 1 .. Len(s.tabs)}

\* C28: HTS adds a tab stop at the cursor column, TBC with Ps = 0 or omitted
\* removes only the stop at the cursor column, TBC with Ps = 3 removes all
\* stops, and every other tab stop is as it was.
C28_TabStopsSetAndCleared ==
    /\ last.op = "HTS" =>
         TabStops(Cur) = TabStops(last.pre) \cup {last.pre.cursor.column}
    /\ (last.op = "TBC" /\ last.arg \in {<< 0, 0 >>, << 1, 0 >>}) =>
         TabStops(Cur) = TabStops(last.pre) \ {last.pre.cursor.column}
    /\ (last.op = "TBC" /\ last.arg = << 1, 3 >>) => TabStops(Cur) = {}

\* n tab moves of one stop each
RECURSIVE SingleTabMoves(_, _, _)
SingleTabMoves(s, n, forward) ==
    IF n <= 0 THEN s
    ELSE SingleTabMoves(IF forward THEN cursorForwardTab(s, 1) ELSE cursorBackwardTab(s, 1),
                        n - 1, forward)

\* C29: CHT N and CBT N leave the cursor where N single tab moves leave it, and
\* a cursor inside the horizontal margins is not moved across the right margin
\* by CHT nor across the left margin by CBT.
C29_TabCountsAsSingleMoves ==
    /\ last.op = "CHT" =>
         /\ cursor.column =
              SingleTabMoves(last.pre, ParamOr(last.arg[1], 1), TRUE).cursor.column
         /\ last.pre.cursor.column <= last.pre.margin.hori.to
              => cursor.column <= last.pre.margin.hori.to
    /\ last.op = "CBT" =>
         /\ cursor.column =
              SingleTabMoves(last.pre, ParamOr(last.arg[1], 1), FALSE).cursor.column
         /\ last.pre.cursor.column >= last.pre.margin.hori.from
              => cursor.column >= last.pre.margin.hori.from


----------------------------------------------------------------------------
(* Screen: mode queries (DECRQM).  requestDECMode casts the number of the   *)
(* query to the enumeration DECMode; the values of its enumerators are not  *)
(* given by the sources, so the query is modelled under three layouts of    *)
(* the enumeration.  The reply is recorded with the operation.              *)

MaxRqmSteps == 2

\* the modes of this specification: those of DECModes and the one that
\* toDECMode reaches from two numbers
RqmModes == DECModes \cup {"UseAlternateScreen"}

RqmModeNumbers == {6, 7, 47, 69, 1047, 2004, 9999}

\* the enumerators numbered by their mode number, UseAlternateScreen by either
\* of its two, or numbered in the order of declaration
DECModeLayouts == {"Numbered47", "Numbered1047", "Ordinal"}

\* the value of an enumerator of DECMode under a layout
DECModeValue(layout, mode) ==
    IF layout = "Ordinal"
    THEN CASE mode = "Origin" -> 0
           [] mode = "AutoWrap" -> 1
           [] mode = "UseAlternateScreen" -> 2
           [] mode = "LeftRightMargin" -> 3
           [] mode = "BracketedPaste" -> 4
    ELSE CASE mode = "Origin" -> 6
           [] mode = "AutoWrap" -> 7
           [] mode = "UseAlternateScreen" -> IF layout = "Numbered47" THEN 47 ELSE 1047
           [] mode = "LeftRightMargin" -> 69
           [] mode = "BracketedPaste" -> 2004

\* static_cast<DECMode>(value): the enumerator of that value, if there is one
castToDECMode(layout, value) ==
    IF \E e \in RqmModes : DECModeValue(layout, e) = value
    THEN CHOOSE e \in RqmModes : DECModeValue(layout, e) = value
    ELSE "none"

\* isValidDECMode: the value is that of an enumerator
isValidDECMode(layout, value) == castToDECMode(layout, value) # "none"

\* toDECModeNum: the number of an enumerator, the value itself for any other
toDECModeNum(layout, value) ==
    LET e == castToDECMode(layout, value)
    IN  CASE e = "Origin" -> 6
          [] e = "AutoWrap" -> 7
          [] e = "UseAlternateScreen" -> IF layout = "Numbered1047" THEN 1047 ELSE 47
          [] e = "LeftRightMargin" -> 69
          [] e = "BracketedPaste" -> 2004
          [] OTHER -> value

\* Modes::enabled(DECMode): the bit of the enumerator
isModeEnabled(s, mode) == s.modes[mode]

\* Screen::requestDECMode: the reply CSI ? code ; status $ y
requestDECMode(s, layout, mode) ==
    [code |-> toDECModeNum(layout, mode),
     status |-> IF isValidDECMode(layout, mode)
                THEN IF isModeEnabled(s, castToDECMode(layout, mode)) THEN 1 ELSE 2
                ELSE 0]

\* Screen::apply, case DECRQM, for a sequence of count parameters
DECRQM == steps > 0 /\ \E count \in {1, 2}, m \in RqmModeNumbers, layout \in DECModeLayouts :
    Step("DECRQM",
         << count, m, layout,
            IF count # 1 THEN << >> ELSE << requestDECMode(Cur, layout, m) >> >>,
         Cur)

\* Screen::apply, case DECSM / DECRM with one parameter
DECSMNumber == steps > 0 /\ \E m \in RqmModeNumbers :
    LET a == applyModesDEC(Cur, << m >>, TRUE, "Ok")
    IN  Step("DECSM", << << m >>, a.result >>, applyAndLogResult(a))
DECRMNumber == steps > 0 /\ \E m \in RqmModeNumbers :
    LET a == applyModesDEC(Cur, << m >>, FALSE, "Ok")
    IN  Step("DECRM", << << m >>, a.result >>, applyAndLogResult(a))

RqmInit ==
    /\ pageSize = Page3x3
    /\ reflowOnResize = TRUE
    /\ maxHistoryLineCount = 0
    /\ usingStdoutFastPipe = FALSE
    /\ cursor = DefaultCursor
    /\ savedCursor = DefaultCursor
    /\ margin = FullMargin(Page3x3)
    /\ modes = [m \in RqmModes |-> m = "AutoWrap"]
    /\ savedModes = [m \in RqmModes |-> << >>]
    /\ lines = [i \in 1 .. Page3x3.lines |-> BlankLine(Page3x3.columns, TRUE, DefaultSGR)]
    /\ history = << >>
    /\ tabs = << >>
    /\ status = "running"
    /\ InitObservers(MaxRqmSteps)
    /\ InitRender
    /\ InitPty

RqmNext == DECSMNumber \/ DECRMNumber \/ DECRQM

RqmSpec == RqmInit /\ [][RqmNext]_vars

\* C30: a DECRQM query for mode m is answered with exactly one report that
\* names m and whose status is 1 when m is set and 2 when it is reset (no mode
\* of the model is permanently set or reset).
C30_ReportsModeStatus ==
    (last.op = "DECRQM" /\ last.arg[1] = 1) =>
        /\ Len(last.arg[4]) = 1
        /\ last.arg[4][1].code = last.arg[2]
        /\ toDECMode(last.arg[2]) # "nullopt" =>
             last.arg[4][1].status = IF last.pre.modes[toDECMode(last.arg[2])] THEN 1 ELSE 2


----------------------------------------------------------------------------
(* Screen: status string requests (DECRQSS) for the margins.  The reply    *)
(* DCS 1 $ r Pt ST is recorded with the operation, Pt as its two numbers    *)
(* and its final character.                                                 *)

MaxRqssSteps == 2

\* Screen::requestStatusString, cases DECSTBM and DECSLRM
requestStatusString(s, value) ==
    CASE value = "DECSTBM" ->
           [valid |-> 1, first |-> 1 + s.margin.vert.from, second |-> s.margin.vert.to,
            final |-> "r"]
      [] value = "DECSLRM" ->
           [valid |-> 1, first |-> 1 + s.margin.hori.from, second |-> s.margin.hori.to,
            final |-> "s"]

\* Screen::hookDECRQSS: the collected string selects the request
DECRQSS == steps > 0 /\ \E data \in {"r", "s"} :
    LET value == IF data = "r" THEN "DECSTBM" ELSE "DECSLRM"
    IN  Step("DECRQSS", << data, requestStatusString(Cur, value) >>, Cur)

RqssInit ==
    /\ pageSize = Page3x3
    /\ reflowOnResize = TRUE
    /\ maxHistoryLineCount = 0
    /\ usingStdoutFastPipe = FALSE
    /\ cursor = DefaultCursor
    /\ savedCursor = DefaultCursor
    /\ margin = FullMargin(Page3x3)
    /\ \E lrmm \in BOOLEAN :
        modes = [m \in DECModes |-> IF m = "LeftRightMargin" THEN lrmm ELSE m = "AutoWrap"]
    /\ savedModes = [m \in DECModes |-> << >>]
    /\ lines = [i \in 1 .. Page3x3.lines |-> BlankLine(Page3x3.columns, TRUE, DefaultSGR)]
    /\ history = << >>
    /\ tabs = << >>
    /\ status = "running"
    /\ InitObservers(MaxRqssSteps)
    /\ InitRender
    /\ InitPty

RqssNext == DECSTBM \/ DECSLRM \/ DECRQSS

RqssSpec == RqssInit /\ [][RqssNext]_vars

\* the margins after the reported string is applied again
Reapplied ==
    IF last.arg[1] = "r"
    THEN setTopBottomMargin(Cur, DecrOpt(last.arg[2].first), DecrOpt(last.arg[2].second)).margin
    ELSE setLeftRightMargin(Cur, DecrOpt(last.arg[2].first), DecrOpt(last.arg[2].second)).margin

\* C31: the DECRQSS reply for 'r' (resp. 's') carries the 1-based values of the
\* current top and bottom (resp. left and right) margins, and applying the
\* reported string again reproduces the current margins.
C31_MarginsReported ==
    last.op = "DECRQSS" =>
        /\ last.arg[2].valid = 1
        /\ last.arg[1] = "r" =>
             /\ last.arg[2].first = margin.vert.from + 1
             /\ last.arg[2].second = margin.vert.to + 1
        /\ last.arg[1] = "s" =>
             /\ last.arg[2].first = margin.hori.from + 1
             /\ last.arg[2].second = margin.hori.to + 1
        /\ Reapplied = margin


----------------------------------------------------------------------------
(* Screen: hyperlinks (OSC 8).  The storage maps an id to the user id and   *)
(* the URI of a link; cells and the cursor refer to a link by its id.       *)

MaxLinkSteps == 4

\* HyperlinkStorage::hyperlinkIdByUserId: the id stored under a user id, else 0
hyperlinkIdByUserId(h, id) ==
    LET found == {i \in 1 .. Len(h.cache) : h.cache[i].userId = id}
    IN  IF found = {} THEN 0
        ELSE h.cache[CHOOSE i \in found : \A j \in found : i <= j].id

\* Screen::hyperlink(id, uri): the screen and the storage it leaves behind
storeHyperlink(s, h, id, uri) ==
    IF uri = ""
    THEN [s |-> [s EXCEPT !.cursor.hyperlink = 0], h |-> h]
    ELSE IF id # "" /\ hyperlinkIdByUserId(h, id) # 0
    THEN [s |-> [s EXCEPT !.cursor.hyperlink = hyperlinkIdByUserId(h, id)], h |-> h]
    ELSE [s |-> [s EXCEPT !.cursor.hyperlink = h.nextHyperlinkId],
          h |-> [nextHyperlinkId |-> h.nextHyperlinkId + 1,
                 cache |-> Append(h.cache, [id |-> h.nextHyperlinkId, userId |-> id,
                                            uri |-> uri])]]

\* impl dispatch of OSC 8 ; id=<id> ; <uri>
OSC8Link ==
    /\ status = "running"
    /\ steps > 0
    /\ \E id \in {"", "a"}, uri \in {"", "u", "v"} :
         LET r == storeHyperlink(Cur, hyperlinks, id, uri)
         IN  /\ Commit(applyAndLog(r.s))
             /\ hyperlinks' = r.h
             /\ last' = [op |-> "OSC8", arg |-> << id, uri >>, pre |-> Cur]
    /\ sinceSave' = SinceSaveNext("OSC8")
    /\ monitor' = monitor
    /\ input' = input
    /\ steps' = steps - 1
    /\ UNCHANGED << renderVars, ptyVars, ioVars, seqVars, session, vi >>

LinkInit ==
    /\ InitScreen(Page2x2, 0, TRUE)
    /\ InitObservers(MaxLinkSteps)
    /\ InitRender
    /\ InitPty

LinkNext == OSC8Link \/ TextChar({"A"}) \/ CR

LinkSpec == LinkInit /\ [][LinkNext]_vars

\* the ids a cell of the page or the cursor refers to
ReferencedLinks ==
    {cursor.hyperlink, savedCursor.hyperlink}
        \cup {lines[y].cells[x].hl : y \in 1 .. Len(lines), x \in 1 .. pageSize.columns}

\* the ids the storage holds
StoredLinks == {hyperlinks.cache[i].id : i \in 1 .. Len(hyperlinks.cache)}

\* C32: the hyperlink storage holds no entry whose id neither a cell nor the
\* cursor refers to: an entry is evicted once the last reference to it is gone.
C32_UnreferencedEvicted == StoredLinks \subseteq ReferencedLinks


----------------------------------------------------------------------------
(* Screen::captureBuffer: the lines of the page sent as chunks              *)
(* ESC ^ <code> ; <text> ESC \.  The replies are recorded with the          *)
(* operation as a sequence of tokens: the prefix, a piece of text with its  *)
(* size in bytes, the terminator ST.                                        *)

\* size_t constexpr MaxChunkSize = 4096 in the code; the model splits at a
\* smaller size, greater than any single piece, so that chunks fill up on a
\* page of four cells
MaxChunkSize == 4

\* the cells of the captured page: blank, ASCII, and characters of two and of
\* three bytes of UTF-8
CaptureChars == {" ", "A", "U+00E9", "U+20AC"}

\* the size of Cell::toUtf8()
Utf8Size(ch) == CASE ch = "U+00E9" -> 2 [] ch = "U+20AC" -> 3 [] OTHER -> 1

PrefixToken == [kind |-> "prefix", size |-> 0]
STToken == [kind |-> "ST", size |-> 0]
DataToken(n) == [kind |-> "data", size |-> n]

\* Line::trim_blank_right: the cells up to the last one that is not blank
trim_blank_right(cells) ==
    LET used == {i \in 1 .. Len(cells) : cells[i].ch # " "}
    IN  IF used = {} THEN << >>
        ELSE SubSeq(cells, 1, CHOOSE i \in used : \A j \in used : j <= i)

\* pushContent that never starts another chunk
pushContentOneChunk(cp, size) ==
    IF size = 0 THEN cp
    ELSE LET begun ==
               IF cp.currentChunkSize = 0
               THEN [cp EXCEPT !.out = Append(@, PrefixToken)]
               ELSE cp
         IN  [begun EXCEPT !.out = Append(@, DataToken(size)),
                           !.currentChunkSize = @ + size]

\* the lambda pushContent of captureBuffer, cp = [out, currentChunkSize, hung]
pushContent(cp, size) ==
    IF size = 0 THEN cp
    ELSE LET begun ==
               IF cp.currentChunkSize = 0
               THEN [cp EXCEPT !.out = Append(@, PrefixToken)]
               ELSE IF cp.currentChunkSize + size >= MaxChunkSize
               THEN [cp EXCEPT !.out = @ \o << STToken, PrefixToken >>,
                               !.currentChunkSize = 0]
               ELSE cp
         IN  [begun EXCEPT !.out = Append(@, DataToken(size)),
                           !.currentChunkSize = @ + size]

\* for (auto const& cell: lineCellsTrimmed.subspan(0, n)) pushContent(cell.toUtf8())
RECURSIVE pushCells(_, _)
pushCells(cp, cells) ==
    IF cells = << >> THEN cp
    ELSE pushCells(pushContent(cp, Utf8Size(Head(cells).ch)), Tail(cells))

\* while (!lineCellsTrimmed.empty()): n = min(available, size) cells at a time;
\* with nothing available the loop would not end
RECURSIVE pushLineCells(_, _)
pushLineCells(cp, cells) ==
    IF cells = << >> THEN cp
    ELSE LET available == MaxChunkSize - cp.currentChunkSize
             n == Min(available, Len(cells))
         IN  IF n <= 0 THEN [cp EXCEPT !.hung = TRUE]
             ELSE pushLineCells(pushCells(cp, SubSeq(cells, 1, n)),
                                SubSeq(cells, n + 1, Len(cells)))

\* the loop over the lines from startLine to the bottom of the page (0-based)
RECURSIVE captureLines(_, _, _)
captureLines(s, cp, line) ==
    IF line > s.pageSize.lines - 1 \/ cp.hung THEN cp
    ELSE LET lineCellsTrimmed == trim_blank_right(s.lines[line + 1].cells)
         IN  IF lineCellsTrimmed = << >> THEN captureLines(s, cp, line + 1)
             ELSE captureLines(s, pushContent(pushLineCells(cp, lineCellsTrimmed), 1),
                               line + 1)

\* Screen::captureBuffer(lineCount, false): the tokens replied
captureBuffer(s, lineCount) ==
    LET relativeStartLine == s.pageSize.lines - lineCount
        startLine == Clamp(relativeStartLine, 0 - Len(s.history), s.pageSize.lines)
        cp == captureLines(s, [out |-> << >>, currentChunkSize |-> 0, hung |-> FALSE],
                           startLine)
    IN  [out |-> (IF cp.currentChunkSize # 0 THEN Append(cp.out, STToken) ELSE cp.out)
                     \o << PrefixToken, STToken >>,
         hung |-> cp.hung]

CaptureBuffer == steps > 0 /\ \E lineCount \in 0 .. pageSize.lines + 1 :
    Step("CaptureBuffer", << lineCount, captureBuffer(Cur, lineCount) >>, Cur)

CaptureInit ==
    /\ pageSize = Page2x2
    /\ reflowOnResize = TRUE
    /\ maxHistoryLineCount = 0
    /\ usingStdoutFastPipe = FALSE
    /\ cursor = DefaultCursor
    /\ savedCursor = DefaultCursor
    /\ margin = FullMargin(Page2x2)
    /\ modes = [m \in DECModes |-> m = "AutoWrap"]
    /\ savedModes = [m \in DECModes |-> << >>]
    /\ \E content \in [1 .. Page2x2.lines -> [1 .. Page2x2.columns -> CaptureChars]] :
        lines = [i \in 1 .. Page2x2.lines |->
                   [cells |-> [c \in 1 .. Page2x2.columns |->
                                  [ch |-> content[i][c], sgr |-> DefaultSGR, hl |-> 0]],
                    wrappable |-> TRUE, wrapped |-> FALSE, trivial |-> FALSE]]
    /\ history = << >>
    /\ tabs = << >>
    /\ status = "running"
    /\ InitObservers(1)
    /\ InitRender
    /\ InitPty

CaptureNext == CaptureBuffer

CaptureSpec == CaptureInit /\ [][CaptureNext]_vars

\* the tokens are whole chunks: prefix, pieces of text of at most MaxChunkSize
\* bytes together, ST
RECURSIVE ChunksFramed(_, _, _)
ChunksFramed(out, open, size) ==
    IF out = << >> THEN ~open
    ELSE CASE Head(out).kind = "prefix" -> ~open /\ ChunksFramed(Tail(out), TRUE, 0)
           [] Head(out).kind = "ST" -> open /\ ChunksFramed(Tail(out), FALSE, 0)
           [] OTHER -> /\ open
                       /\ size + Head(out).size <= MaxChunkSize
                       /\ ChunksFramed(Tail(out), TRUE, size + Head(out).size)

\* C33: every chunk sent in answer to a capture-buffer request starts with the
\* prefix, ends with ST and carries at most MaxChunkSize bytes of text, also
\* for cells whose UTF-8 encoding is several bytes long.
C33_ChunksFramedAndBounded ==
    last.op = "CaptureBuffer" =>
        /\ ~last.arg[2].hung
        /\ ChunksFramed(last.arg[2].out, FALSE, 0)

\* a capture of both lines, full of three-byte characters: more than two chunks
C33_Witness ==
    /\ last.op = "CaptureBuffer"
    /\ last.arg[1] = 2
    /\ \A y \in 1 .. 2, x \in 1 .. 2 : lines[y].cells[x].ch = "U+20AC"
    /\ Cardinality({i \in 1 .. Len(last.arg[2].out) : last.arg[2].out[i].kind = "ST"}) > 2


----------------------------------------------------------------------------
(* The frame of selective erase in display, over EraseSpec.                 *)

\* the cells (line and column 1-based) that DECSED p targets for the cursor
\* of the state s: 0 from the cursor to the end of the page, 1 from the
\* beginning of the page to the cursor, 2 the whole page
SedTargeted(s, p, y, c) ==
    CASE p = 0 -> y > s.cursor.line + 1 \/ (y = s.cursor.line + 1 /\ c >= s.cursor.column + 1)
      [] p = 1 -> y < s.cursor.line + 1 \/ (y = s.cursor.line + 1 /\ c <= s.cursor.column + 1)
      [] OTHER -> TRUE

\* C34: DECSED 0/1/2 blanks exactly the unprotected cells of the targeted
\* region and changes no cell outside it; the cursor's line is changed only
\* in its targeted part.
C34_SelectiveEraseFrame ==
    (last.op = "DECSED" /\ last.arg[1] \in {0, 1, 2} /\ status = "running") =>
        \A y \in 1 .. pageSize.lines, c \in 1 .. pageSize.columns :
            IF SedTargeted(last.pre, last.arg[1], y, c)
               /\ ~last.pre.lines[y].cells[c].sgr.prot
            THEN lines[y].cells[c].ch = " "
            ELSE lines[y].cells[c] = last.pre.lines[y].cells[c]


----------------------------------------------------------------------------
(* The pending wrap under writes, autowrap changes and cursor moves: a 2x2  *)
(* page written to, with BS, CR, CUB and CUF in between and DECAWM set or   *)
(* reset.                                                                   *)

MaxWrapSteps == 3     \* operations per run of the pending-wrap specification

WrapPendingInit ==
    /\ InitScreen(Page2x2, 0, TRUE)
    /\ InitObservers(MaxWrapSteps)
    /\ InitRender
    /\ InitPty

WrapPendingNext ==
    \/ TextChar({"A"}) \/ TextRun({"A"})
    \/ BS \/ CR \/ CUB \/ CUF
    \/ DECSM \/ DECRM

WrapPendingSpec == WrapPendingInit /\ [][WrapPendingNext]_vars

\* the last column a write can reach from the cursor's position
LastWritableColumn(s) ==
    IF s.modes["LeftRightMargin"] /\ isCursorInsideMargins(s)
    THEN s.margin.hori.to
    ELSE s.pageSize.columns - 1

\* C35: whenever wrapPending is true, autowrap is enabled and the cursor is
\* on the last writable column; an operation that moved the cursor off that
\* column (BS included) and a write with autowrap disabled leave wrapPending
\* false.
C35_WrapPendingOnlyAtLastColumn ==
    status = "running" =>
        /\ cursor.wrapPending =>
               cursor.autoWrap /\ cursor.column = LastWritableColumn(Cur)
        /\ (last.op \in {"BS", "CR", "CUB", "CUF"} /\ last.pre.cursor.column # cursor.column) =>
               ~cursor.wrapPending
        /\ (last.op = "Text" /\ ~last.pre.cursor.autoWrap) => ~cursor.wrapPending


\* C36: after any sequence of HTS and TBC the list of explicit tab stops is
\* strictly increasing, and after a TBC 0 (or TBC without parameter) the
\* cursor's column carries no tab stop.
C36_TabsStrictlyIncreasing ==
    status = "running" =>
        /\ \A i \in 1 .. Len(tabs) - 1 : tabs[i] < tabs[i + 1]
        /\ (last.op = "TBC" /\ (last.arg[1] # 1 \/ last.arg[2] = 0)) =>
               \A i \in 1 .. Len(tabs) : tabs[i] # realCursorPosition(Cur).column


----------------------------------------------------------------------------
(* The default tab stops as HT, the tab-stop report and TBC 0 see them.     *)

\* Screen::requestTabStops: the columns of the reply DCS 2 $ u Pt ST, 1-based
\* and in the order sent
requestTabStops(s) ==
    IF s.tabs # << >>
    THEN [i \in 1 .. Len(s.tabs) |-> s.tabs[i] + 1]
    ELSE << 1 >> \o [k \in 1 .. ((s.pageSize.columns - 1) \div TabWidth) |-> k * TabWidth + 1]

\* impl::DECRQPSR: only CSI 2 $ w is answered
implDECRQPSR(s, count, p) ==
    IF count # 1 THEN [result |-> "Invalid", reply |-> << >>]
    ELSE IF p = 2 THEN [result |-> "Ok", reply |-> requestTabStops(s)]
    ELSE [result |-> "Invalid", reply |-> << >>]

\* Screen::apply, case DECRQPSR: CSI $ w, CSI 1 $ w, CSI 2 $ w
DECRQPSR == steps > 0 /\ \E a \in {<< 0, 0 >>, << 1, 1 >>, << 1, 2 >>} :
    LET r == implDECRQPSR(Cur, a[1], a[2])
    IN  Step("DECRQPSR", << a[1], a[2], r >>,
             applyAndLogResult([s |-> Cur, result |-> r.result]))

TabReportNext == HT \/ HTS \/ TBC \/ CHATab \/ DECRQPSR

TabReportSpec == TabInit /\ [][TabReportNext]_vars

\* the column HT moves to from column c of the cursor's line
HTFrom(s, c) == moveCursorToNextTab([s EXCEPT !.cursor.column = c]).cursor.column

\* the columns where HT stops, other than the right margin
HTStops(s) ==
    {HTFrom(s, c) : c \in {d \in 0 .. s.pageSize.columns - 1 : HTFrom(s, d) # d}}
        \ {s.margin.hori.to}

\* TBC that clears the stop under the cursor: CSI g and CSI 0 g
IsTBCUnderCursor == last.op = "TBC" /\ (last.arg[1] # 1 \/ last.arg[2] = 0)

\* C37: with no explicit tab stops, the columns of the tab-stop report and
\* the columns TBC 0 materialises are the columns where HT stops, and TBC 0
\* at a column that is no default tab stop does not change where HT stops.
C37_DefaultTabsAgree ==
    status = "running" =>
        /\ (last.op = "DECRQPSR" /\ last.arg[3].result = "Ok" /\ last.pre.tabs = << >>) =>
               {last.arg[3].reply[i] - 1 : i \in 1 .. Len(last.arg[3].reply)}
                   = HTStops(last.pre)
        /\ (IsTBCUnderCursor /\ last.pre.tabs = << >>) =>
               LET col == realCursorPosition(last.pre).column
               IN  /\ {tabs[i] : i \in 1 .. Len(tabs)} \ {col} = HTStops(last.pre) \ {col}
                   /\ col \notin HTStops(last.pre) =>
                          \A c \in 0 .. pageSize.columns - 1 :
                              HTFrom(Cur, c) = HTFrom(last.pre, c)


----------------------------------------------------------------------------
(* Back index and forward index: a 3x3 page whose first line holds text,    *)
(* with the full page or the columns 0..1 or 1..2 as horizontal margins and *)
(* the cursor in any column of the first line (CUP reaches every column of  *)
(* the page while origin mode is off).                                      *)

MaxColumnIndexSteps == 2     \* operations per run of the column-index specification

\* Grid::scrollLeft: on every line of the vertical margin the cells of the
\* horizontal margin move one column to the left and the right margin's
\* column becomes blank
GridScrollLeft(s, sgr, m) ==
    [s EXCEPT !.lines =
        [y \in DOMAIN @ |->
            IF m.vert.from < y /\ y <= m.vert.to + 1
            THEN [@[y] EXCEPT !.trivial = FALSE,
                              !.cells = [c \in DOMAIN @ |->
                                  CASE m.hori.from < c /\ c <= m.hori.to -> @[c + 1]
                                    [] c = m.hori.to + 1 -> BlankCell(sgr)
                                    [] OTHER -> @[c]]]
            ELSE @[y]]]

\* Screen::backIndex: at the left margin nothing happens (TODO: scrollRight)
backIndex(s) ==
    IF realCursorPosition(s).column = s.margin.hori.from
    THEN s
    ELSE moveCursorForward(s, 1)

\* Screen::forwardIndex
forwardIndex(s) ==
    IF realCursorPosition(s).column = s.margin.hori.to
    THEN GridScrollLeft(s, DefaultSGR, s.margin)
    ELSE moveCursorForward(s, 1)

\* Screen::executeControlCode / apply, cases DECBI and DECFI
DECBI == Step("DECBI", << >>, applyAndLog(backIndex(Cur)))
DECFI == Step("DECFI", << >>, applyAndLog(forwardIndex(Cur)))

ColumnIndexMargins ==
    {[vert |-> FullMargin(Page3x3).vert, hori |-> [from |-> f, to |-> t]] :
        << f, t >> \in {<< 0, 2 >>, << 0, 1 >>, << 1, 2 >>}}

ColumnIndexInit ==
    /\ pageSize = Page3x3
    /\ reflowOnResize = TRUE
    /\ maxHistoryLineCount = 0
    /\ usingStdoutFastPipe = FALSE
    /\ margin \in ColumnIndexMargins
    /\ \E column \in 0 .. Page3x3.columns - 1 :
        cursor = [DefaultCursor EXCEPT !.column = column]
    /\ savedCursor = DefaultCursor
    /\ modes = [m \in DECModes |->
                  CASE m = "AutoWrap" -> TRUE
                    [] m = "LeftRightMargin" -> margin.hori # FullMargin(Page3x3).hori
                    [] OTHER -> FALSE]
    /\ savedModes = [m \in DECModes |-> << >>]
    /\ \E content \in [1 .. Page3x3.columns -> {" ", "A"}] :
        lines = [i \in 1 .. Page3x3.lines |->
                    IF i = 1
                    THEN [cells |-> [c \in 1 .. Page3x3.columns |->
                                        [ch |-> content[c], sgr |-> DefaultSGR, hl |-> 0]],
                          wrappable |-> TRUE, wrapped |-> FALSE,
                          trivial |-> \A c \in 1 .. Page3x3.columns : content[c] = " "]
                    ELSE BlankLine(Page3x3.columns, TRUE, DefaultSGR)]
    /\ history = << >>
    /\ tabs = << >>
    /\ status = "running"
    /\ InitObservers(MaxColumnIndexSteps)
    /\ InitRender
    /\ InitPty

ColumnIndexNext == DECBI \/ DECFI

ColumnIndexSpec == ColumnIndexInit /\ [][ColumnIndexNext]_vars

\* C38: DECBI with the cursor off the left margin moves the cursor one column
\* to the left and changes no cell; DECFI with the cursor off the right margin
\* moves it one column to the right.
C38_IndexMovesOneColumn ==
    status = "running" =>
        /\ (last.op = "DECBI" /\ last.pre.cursor.column # last.pre.margin.hori.from) =>
               /\ cursor.column = last.pre.cursor.column - 1
               /\ cursor.line = last.pre.cursor.line
               /\ lines = last.pre.lines
        /\ (last.op = "DECFI" /\ last.pre.cursor.column # last.pre.margin.hori.to) =>
               /\ cursor.column = last.pre.cursor.column + 1
               /\ cursor.line = last.pre.cursor.line


----------------------------------------------------------------------------
(* TerminalSession: the guarded capture of the screen buffer.  A request of *)
(* the application (Screen::apply, case CAPTURE) is stored as pending and   *)
(* the user is asked; the decision arrives through executeRole, or through  *)
(* requestPermission when the configuration or a remembered decision        *)
(* settles it.  Each stored request carries the number of its arrival, so   *)
(* that the captures executed can be told apart.                            *)

MaxSessionSteps == 4     \* operations per run of the session specification

\* TerminalSession::requestCaptureBuffer
requestCaptureBuffer(ss, lineCount, logical) ==
    IF ~ss.display THEN ss
    ELSE [ss EXCEPT !.pendingBufferCapture =
                        << [lines |-> lineCount, logical |-> logical, id |-> ss.requested + 1] >>,
                    !.requested = @ + 1,
                    !.asked = @ + 1]

\* executePendingBufferCapture that leaves the request pending
executePendingBufferCaptureKept(ss, allow, remember) ==
    LET ss1 == IF remember THEN [ss EXCEPT !.rememberedPermissions = << allow >>] ELSE ss
    IN  IF ss1.pendingBufferCapture = << >> THEN ss1
        ELSE IF ~allow THEN ss1
        ELSE [ss1 EXCEPT !.sent = Append(@, ss1.pendingBufferCapture[1])]

\* TerminalSession::executePendingBufferCapture; the capture executed is
\* Screen::captureBuffer(capture.lines, capture.logical)
executePendingBufferCapture(ss, allow, remember) ==
    LET ss1 == IF remember THEN [ss EXCEPT !.rememberedPermissions = << allow >>] ELSE ss
    IN  IF ss1.pendingBufferCapture = << >> THEN ss1
        ELSE LET capture == ss1.pendingBufferCapture[1]
                 ss2 == [ss1 EXCEPT !.pendingBufferCapture = << >>]
             IN  IF ~allow THEN ss2
                 ELSE [ss2 EXCEPT !.sent = Append(@, capture)]

\* TerminalSession::executeRole for GuardedRole::CaptureBuffer
executeRole(ss, allow, remember) == executePendingBufferCapture(ss, allow, remember)

\* TerminalSession::requestPermission for GuardedRole::CaptureBuffer
requestPermission(ss, allowedByConfig) ==
    CASE allowedByConfig = "Allow" -> executeRole(ss, TRUE, FALSE)
      [] allowedByConfig = "Deny" -> executeRole(ss, FALSE, FALSE)
      [] OTHER ->
           IF ss.rememberedPermissions # << >>
           THEN executeRole(ss, ss.rememberedPermissions[1], FALSE)
           ELSE [ss EXCEPT !.asked = @ + 1]

\* a step of the session: the screen and the other components stay as they are
SessionStep(op, arg, ss2) ==
    /\ status = "running"
    /\ steps > 0
    /\ session' = ss2
    /\ last' = [op |-> op, arg |-> arg, pre |-> Cur]
    /\ steps' = steps - 1
    /\ UNCHANGED << screenVars, sinceSave, monitor, input, renderVars, ptyVars, ioVars,
                    seqVars, hyperlinks, vi >>

RequestCaptureBuffer == steps > 0 /\ \E lineCount \in 1 .. 2, logical \in BOOLEAN :
    SessionStep("requestCaptureBuffer", << lineCount, logical >>,
                requestCaptureBuffer(session, lineCount, logical))

ExecuteRole == steps > 0 /\ \E allow \in BOOLEAN, remember \in BOOLEAN :
    SessionStep("executeRole", << allow, remember >>, executeRole(session, allow, remember))

RequestPermission == steps > 0 /\ \E allowedByConfig \in {"Allow", "Deny", "Ask"} :
    SessionStep("requestPermission", << allowedByConfig >>,
                requestPermission(session, allowedByConfig))

SessionInit ==
    /\ InitScreen(Page2x2, 0, TRUE)
    /\ InitObservers(MaxSessionSteps)
    /\ InitRender
    /\ InitPtyOnly
    /\ hyperlinks = NoHyperlinks
    /\ \E display \in BOOLEAN : session = [NoSession EXCEPT !.display = display]
    /\ vi = NoVi("Insert")

SessionNext == RequestCaptureBuffer \/ ExecuteRole \/ RequestPermission

SessionSpec == SessionInit /\ [][SessionNext]_vars

\* the decision that the operation `op` with arguments `arg` carries in the
\* session state ss: << allow >>, or << >> when it carries none
DecisionOf(op, arg, ss) ==
    CASE op = "executeRole" -> << arg[1] >>
      [] op = "requestPermission" /\ arg[1] = "Allow" -> << TRUE >>
      [] op = "requestPermission" /\ arg[1] = "Deny" -> << FALSE >>
      [] op = "requestPermission" /\ arg[1] = "Ask" -> ss.rememberedPermissions
      [] OTHER -> << >>

\* C39: a capture is executed only by an allow decision that finds a request
\* pending, and it is that request, executed for the first time and no
\* longer pending afterwards; a deny decision drops the pending request and
\* executes nothing; a decision that finds no request pending executes
\* nothing.
C39_CaptureOnlyAfterAllow ==
    [][LET d == DecisionOf(last'.op, last'.arg, session)
       IN  /\ session'.sent # session.sent =>
                 /\ d = << TRUE >>
                 /\ session.pendingBufferCapture # << >>
                 /\ session'.sent = Append(session.sent, session.pendingBufferCapture[1])
                 /\ session'.pendingBufferCapture = << >>
                 /\ \A i \in 1 .. Len(session.sent) :
                        session.sent[i].id # session.pendingBufferCapture[1].id
           /\ d = << FALSE >> =>
                 /\ session'.sent = session.sent
                 /\ session'.pendingBufferCapture = << >>
           /\ (d # << >> /\ session.pendingBufferCapture = << >>) =>
                 session'.sent = session.sent]_vars

\* an allow decision has just executed the second request stored, the first
\* one having been denied or replaced
C39_Witness ==
    /\ last.op = "executeRole"
    /\ last.arg[1]
    /\ session.pendingBufferCapture = << >>
    /\ Len(session.sent) = 1
    /\ session.sent[1].id = 2


----------------------------------------------------------------------------
(* ViInputHandler: search editing.  The keys are ESC, CR, BS and the        *)
(* characters v and /, sent without modifier: v and / are commands in       *)
(* Normal and Visual mode and plain text in the search term; CR and BS      *)
(* complete no mode-changing command outside search editing.                *)

MaxViSteps == 4     \* operations per run of the Vi input-handler specification

ViModes == {"Insert", "Normal", "Visual"}
ViKeys == {"ESC", "CR", "BS", "v", "/"}

\* ViInputHandler::setMode (pending input is not modelled: every command of
\* ViKeys is a single character)
viSetMode(v, theMode) == IF v.viMode = theMode THEN v ELSE [v EXCEPT !.viMode = theMode]

\* ViInputHandler::toggleMode
toggleMode(v, newMode) == viSetMode(v, IF newMode # v.viMode THEN newMode ELSE "Normal")

\* ViInputHandler::startSearch
startSearch(v) == [v EXCEPT !.searchEditMode = "Enabled"]

\* ViInputHandler::startSearchExternally
startSearchExternally(v) ==
    LET v1 == [v EXCEPT !.searchTerm = << >>]
    IN  IF v1.viMode # "Insert"
        THEN [v1 EXCEPT !.searchEditMode = "Enabled"]
        ELSE viSetMode([v1 EXCEPT !.searchEditMode = "ExternallyEnabled"], "Normal")

\* ViInputHandler::handleSearchEditor
handleSearchEditor(v, ch) ==
    CASE ch = "ESC" ->
             LET v1 == [v EXCEPT !.searchTerm = << >>]
                 v2 == IF v1.searchEditMode = "ExternallyEnabled"
                       THEN viSetMode(v1, "Insert") ELSE v1
             IN  [v2 EXCEPT !.searchEditMode = "Disabled"]
      [] ch = "CR" ->
             LET v2 == IF v.searchEditMode = "ExternallyEnabled"
                       THEN viSetMode(v, "Insert") ELSE v
             IN  [v2 EXCEPT !.searchEditMode = "Disabled"]
      [] ch = "BS" ->
             IF v.searchTerm # << >>
             THEN [v EXCEPT !.searchTerm = SubSeq(@, 1, Len(@) - 1)]
             ELSE v
      [] OTHER -> [v EXCEPT !.searchTerm = Append(@, ch)]

\* ViInputHandler::handlePendingInput for the one-character input ch
handlePendingInput(v, ch) ==
    CASE ch = "v" -> toggleMode(v, IF v.viMode = "Visual" THEN "Normal" ELSE "Visual")
      [] ch = "/" -> startSearch(v)
      [] OTHER -> v

\* ViInputHandler::sendCharPressEvent without modifier
sendCharPressEvent(v, ch) ==
    IF v.searchEditMode # "Disabled" THEN handleSearchEditor(v, ch)
    ELSE IF v.viMode = "Insert" THEN v
    ELSE IF ch = "ESC" THEN viSetMode(v, "Normal")
    ELSE handlePendingInput(v, ch)

\* a step of the input handler; startedIn follows the search being edited:
\* the mode in which it was first started externally, nothing once it ended
ViStep(op, arg, v2) ==
    /\ status = "running"
    /\ steps > 0
    /\ vi' = [v2 EXCEPT !.startedIn =
                 CASE v2.searchEditMode = "Disabled" -> << >>
                   [] op = "startSearchExternally" /\ vi.startedIn = << >> -> << vi.viMode >>
                   [] OTHER -> vi.startedIn]
    /\ last' = [op |-> op, arg |-> arg, pre |-> Cur]
    /\ steps' = steps - 1
    /\ UNCHANGED << screenVars, sinceSave, monitor, input, renderVars, ptyVars, ioVars,
                    seqVars, hyperlinks, session >>

\* TerminalSession::operator()(actions::SearchReverse)
StartSearchExternally ==
    ViStep("startSearchExternally", << >>, startSearchExternally(vi))

SendCharPressEvent == steps > 0 /\ \E ch \in ViKeys :
    ViStep("sendCharPressEvent", << ch >>, sendCharPressEvent(vi, ch))

ViInit ==
    /\ InitScreen(Page2x2, 0, TRUE)
    /\ InitObservers(MaxViSteps)
    /\ InitRender
    /\ InitPtyOnly
    /\ hyperlinks = NoHyperlinks
    /\ session = NoSession
    /\ \E initialMode \in ViModes : vi = NoVi(initialMode)

ViNext == StartSearchExternally \/ SendCharPressEvent

ViSpec == ViInit /\ [][ViNext]_vars

\* C40: a search started externally in Insert mode puts the handler in
\* Normal mode for as long as the term is edited and Enter or Escape returns
\* it to Insert mode; a search started externally in another mode leaves
\* that mode in place when it ends; Enter and Escape end search editing in
\* the Disabled state.
C40_SearchRestoresMode ==
    [][/\ (last'.op = "startSearchExternally" /\ vi.searchEditMode = "Disabled"
              /\ vi.viMode = "Insert") =>
             vi'.viMode = "Normal" /\ vi'.searchEditMode # "Disabled"
       /\ (vi'.searchEditMode # "Disabled" /\ vi'.startedIn = << "Insert" >>) =>
             vi'.viMode = "Normal"
       /\ (vi.searchEditMode # "Disabled" /\ last'.op = "sendCharPressEvent"
              /\ last'.arg[1] \in {"ESC", "CR"}) =>
             /\ vi'.searchEditMode = "Disabled"
             /\ vi.startedIn # << >> => vi'.viMode = vi.startedIn[1]]_vars

====
